---- MODULE Spec2Model ----
(***************************************************************************)
(* A model of release-linear-ticket-update: the three pipeline stages      *)
(* (parse-notes, extract-tickets, update-tickets), the shared line reader  *)
(* for_each_input_line, and the orchestrator that spawns and waits on the  *)
(* three stage processes.                                                  *)
(*                                                                         *)
(* Text that the code inspects character by character (input lines, state  *)
(* names, grep matches) is a sequence of one-character strings.  Text the  *)
(* code only passes along (organisation, API key, team and state ids,      *)
(* paths) is an atomic string.                                             *)
(***************************************************************************)
EXTENDS Integers, Sequences, FiniteSets, TLC

(***************************************************************************)
(* Bounds of the model.                                                    *)
(***************************************************************************)
\* the most input lines one stage invocation reads
MaxLines == 2
\* the most grep matches one parse-notes invocation reads
MaxMatches == 3
\* the most words on a command line
MaxArgs == 4
\* the number of lines a pipe between two stages holds before a write blocks
PipeCap == 1
\* the longest text is_valid_ticket_id is given on its own
MaxIdLen == 6

(***************************************************************************)
(* Characters and the string primitives of the Rust standard library the   *)
(* code uses.                                                              *)
(***************************************************************************)
UpperSeq == <<"A","B","C","D","E","F","G","H","I","J","K","L","M",
              "N","O","P","Q","R","S","T","U","V","W","X","Y","Z">>
LowerSeq == <<"a","b","c","d","e","f","g","h","i","j","k","l","m",
              "n","o","p","q","r","s","t","u","v","w","x","y","z">>
DigitChars == {"0","1","2","3","4","5","6","7","8","9"}
WhiteChars == {" ", "\t"}

\* u8::is_ascii_uppercase
is_ascii_uppercase(c) == \E i \in 1..Len(UpperSeq) : UpperSeq[i] = c

\* u8::is_ascii_digit
is_ascii_digit(c) == c \in DigitChars

\* u8::to_ascii_lowercase
to_ascii_lowercase(c) ==
    IF is_ascii_uppercase(c)
    THEN LowerSeq[CHOOSE i \in 1..Len(UpperSeq) : UpperSeq[i] = c]
    ELSE c

\* str::eq_ignore_ascii_case
eq_ignore_ascii_case(a, b) ==
    /\ Len(a) = Len(b)
    /\ \A i \in 1..Len(a) : to_ascii_lowercase(a[i]) = to_ascii_lowercase(b[i])

\* str::contains with a non-empty pattern
contains(s, pat) ==
    \E i \in 1..(Len(s) - Len(pat) + 1) : SubSeq(s, i, i + Len(pat) - 1) = pat

\* the same search after lowering both sides: jq's test(re; "i") for a
\* pattern that is a plain word
contains_ignore_case(s, pat) ==
    \E i \in 1..(Len(s) - Len(pat) + 1) :
        eq_ignore_ascii_case(SubSeq(s, i, i + Len(pat) - 1), pat)

\* str::trim: the text between the first and the last non-white character.
\* The mutant leaves the text as it is.
trim_nothing(s) == s

trim(s) ==
    LET idx == {i \in 1..Len(s) : s[i] \notin WhiteChars}
    IN  IF idx = {} THEN <<>>
        ELSE SubSeq(s, CHOOSE i \in idx : \A j \in idx : i <= j,
                       CHOOSE i \in idx : \A j \in idx : i >= j)

\* str::split_once('-'): the position of the first hyphen, 0 when none
first_hyphen(s) ==
    LET idx == {i \in 1..Len(s) : s[i] = "-"}
    IN  IF idx = {} THEN 0 ELSE CHOOSE i \in idx : \A j \in idx : i <= j

(***************************************************************************)
(* update_tickets.rs: the pure helpers.                                    *)
(***************************************************************************)
Done == <<"D","o","n","e">>
Completed == <<"C","o","m","p","l","e","t","e","d">>
Passing == <<"P","a","s","s","i","n","g">>
done_lc == <<"d","o","n","e">>
completed_lc == <<"c","o","m","p","l","e","t","e","d">>

\* the mutant tests the whole name instead of searching it
state_is_done_or_completed_exact(state_name) ==
    state_name = Done \/ state_name = Completed

\* This mutant only looks for "Completed".
state_is_completed_only(state_name) == contains(state_name, Completed)

state_is_done_or_completed(state_name) ==
    contains(state_name, Done) \/ contains(state_name, Completed)

\* the mutant compares case-sensitively
state_is_passing_case_sensitive(state_name) == state_name = Passing

state_is_passing(state_name) == eq_ignore_ascii_case(state_name, Passing)

\* update_single_ticket's decision.  The mutant forgets the completed test.
should_update_ignoring_completed(state_name, update_all_statuses) ==
    update_all_statuses \/ state_is_passing(state_name)

\* This mutant lets every state that is not completed qualify.
should_update_whatever_the_state(state_name, update_all_statuses) ==
    ~state_is_done_or_completed(state_name)

should_update(state_name, update_all_statuses) ==
    /\ ~state_is_done_or_completed(state_name)
    /\ (update_all_statuses \/ state_is_passing(state_name))

\* is_valid_ticket_id.  The mutant splits at the hyphen and looks at the
\* characters of both parts, but not at how many the prefix has.
is_valid_ticket_id_any_prefix_len(input) ==
    LET h == first_hyphen(input)
        prefix == SubSeq(input, 1, h - 1)
        digits == SubSeq(input, h + 1, Len(input))
    IN  /\ h # 0
        /\ \A i \in 1..Len(prefix) : is_ascii_uppercase(prefix[i])
        /\ Len(digits) # 0
        /\ \A i \in 1..Len(digits) : is_ascii_digit(digits[i])

is_valid_ticket_id(input) ==
    LET h == first_hyphen(input)
        prefix == SubSeq(input, 1, h - 1)
        digits == SubSeq(input, h + 1, Len(input))
    IN  /\ h # 0
        /\ Len(prefix) = 3
        /\ \A i \in 1..Len(prefix) : is_ascii_uppercase(prefix[i])
        /\ Len(digits) # 0
        /\ \A i \in 1..Len(digits) : is_ascii_digit(digits[i])

\* parse_issue_id: [ok |-> TRUE, id |-> ...] or [ok |-> FALSE, err |-> ...]
\* The mutant only rejects the empty text.
parse_issue_id_without_pattern(input) ==
    LET trimmed == trim(input)
    IN  IF trimmed = <<>> THEN [ok |-> FALSE, err |-> "Empty ticket ID"]
        ELSE [ok |-> TRUE, id |-> trimmed]

parse_issue_id(input) ==
    LET trimmed == trim(input)
    IN  IF trimmed = <<>> THEN [ok |-> FALSE, err |-> "Empty ticket ID"]
        ELSE IF ~is_valid_ticket_id(trimmed)
             THEN [ok |-> FALSE, err |-> "Expected ticket ID like ABC-123"]
             ELSE [ok |-> TRUE, id |-> trimmed]

\* issue_url: format!("https://linear.app/{org}/issue/{issue_id}")
issue_url(org, issue_id) == <<"https://linear.app/", org, "/issue/", issue_id>>


\* ensure_no_graphql_errors: jq '.errors[]?.message // empty' prints the
\* messages that are neither null nor false; the response passes when the
\* trimmed output is empty.  `errors` is the list of the messages, NoMessage
\* standing for an entry without one.
NoMessage == "null"
ensure_no_graphql_errors(errors) ==
    \A i \in 1..Len(errors) : errors[i] \in {NoMessage, ""}

\* find_completed_state: the ids of the nodes whose name matches
\* test("completed|done"; "i"), in list order; the first output line, trimmed.
\* <<>> stands for Err("Could not find a 'Completed' or 'Done' state").
matching_nodes(nodes) ==
    SelectSeq(nodes, LAMBDA n : \/ contains_ignore_case(n.name, completed_lc)
                                \/ contains_ignore_case(n.name, done_lc))

\* This mutant takes the last output line of jq instead of the first.
find_completed_state_last(nodes) ==
    LET ids == matching_nodes(nodes)
        state_id == IF ids = <<>> THEN "" ELSE ids[Len(ids)].id
    IN  IF state_id = "" \/ state_id = "null" THEN <<>> ELSE <<state_id>>

find_completed_state(nodes) ==
    LET ids == matching_nodes(nodes)
        state_id == IF ids = <<>> THEN "" ELSE ids[1].id
    IN  IF state_id = "" \/ state_id = "null" THEN <<>> ELSE <<state_id>>

(***************************************************************************)
(* config.rs: options are <<>> (None) or <<v>> (Some(v)).                  *)
(***************************************************************************)
None == <<>>
Some(v) == <<v>>

Stdin == [kind |-> "Stdin", path |-> ""]
File(path) == [kind |-> "File", path |-> path]

\* Config::get_linear_api_key
\* The mutant looks at the environment first.
get_linear_api_key_env_first(cfg, ev) ==
    IF ev.LINEAR_API_KEY # None
    THEN [ok |-> TRUE, val |-> ev.LINEAR_API_KEY[1]]
    ELSE IF cfg.linear_api_key # None
         THEN [ok |-> TRUE, val |-> cfg.linear_api_key[1]]
         ELSE [ok |-> FALSE, val |-> "LINEAR_API_KEY not provided"]

get_linear_api_key(cfg, ev) ==
    IF cfg.linear_api_key # None
    THEN [ok |-> TRUE, val |-> cfg.linear_api_key[1]]
    ELSE IF ev.LINEAR_API_KEY # None
         THEN [ok |-> TRUE, val |-> ev.LINEAR_API_KEY[1]]
         ELSE [ok |-> FALSE, val |-> "LINEAR_API_KEY not provided"]

\* Config::get_linear_org
\* The mutant falls back on an empty organisation instead of failing.
get_linear_org_or_empty(cfg, ev) ==
    IF cfg.linear_org # None THEN [ok |-> TRUE, val |-> cfg.linear_org[1]]
    ELSE IF ev.LINEAR_ORG # None THEN [ok |-> TRUE, val |-> ev.LINEAR_ORG[1]]
    ELSE [ok |-> TRUE, val |-> ""]

get_linear_org(cfg, ev) ==
    IF cfg.linear_org # None
    THEN [ok |-> TRUE, val |-> cfg.linear_org[1]]
    ELSE IF ev.LINEAR_ORG # None
         THEN [ok |-> TRUE, val |-> ev.LINEAR_ORG[1]]
         ELSE [ok |-> FALSE, val |-> "LINEAR_ORG not provided"]

(***************************************************************************)
(* Config::from_args.  The arguments are the words after the program name, *)
(* each word one string; what the code finds by looking into a word        *)
(* (starts_with, strip_prefix) is listed for the words of the model.       *)
(***************************************************************************)
\* arg.starts_with("--")
starts_with_dashes(arg) ==
    arg \in {"--dry-run", "--linear-org", "--linear-org=acme",
              "--release-tag=v1", "--bogus"}

\* the modes named by the first word
mode_of(first) ==
    CASE first = "parse-notes" -> Some("ParseNotes")
      [] first = "extract-tickets" -> Some("ExtractTickets")
      [] first = "update-tickets" -> Some("UpdateTickets")
      [] OTHER -> None

ArgsErr(msg) == [ok |-> FALSE, err |-> msg]

parse_mode_and_start_index(a) ==
    IF Len(a) = 0 THEN ArgsErr("Orchestrator mode requires --release-tag flag")
    ELSE IF starts_with_dashes(a[1])
    THEN [ok |-> TRUE, mode |-> "Orchestrator", start_idx |-> 1]
    ELSE IF mode_of(a[1]) = None THEN ArgsErr("Unknown mode")
    ELSE [ok |-> TRUE, mode |-> mode_of(a[1])[1], start_idx |-> 2]

NoParsedArgs ==
    [release_tag |-> None, linear_api_key |-> None, linear_org |-> None,
     input_sources |-> <<>>, dry_run |-> FALSE, update_all_statuses |-> FALSE]

\* parse_common_flags: the flag at position i is taken (flag = TRUE, with
\* the position after it), or the word is not one of the flags, or the value
\* of a flag is missing
parse_common_flags(a, i, parsed) ==
    LET arg == a[i]
    IN  IF arg = "--dry-run"
        THEN [ok |-> TRUE, flag |-> TRUE, i |-> i + 1,
              parsed |-> [parsed EXCEPT !.dry_run = TRUE]]
        ELSE IF arg = "--release-tag=v1"
        THEN [ok |-> TRUE, flag |-> TRUE, i |-> i + 1,
              parsed |-> [parsed EXCEPT !.release_tag = Some("v1")]]
        ELSE IF arg = "--linear-org=acme"
        THEN [ok |-> TRUE, flag |-> TRUE, i |-> i + 1,
              parsed |-> [parsed EXCEPT !.linear_org = Some("acme")]]
        ELSE IF arg = "--linear-org"
        THEN (IF i + 1 > Len(a) THEN ArgsErr("Missing value for --linear-org")
              ELSE [ok |-> TRUE, flag |-> TRUE, i |-> i + 2,
                    parsed |-> [parsed EXCEPT !.linear_org = Some(a[i + 1])]])
        ELSE [ok |-> TRUE, flag |-> FALSE, i |-> i, parsed |-> parsed]

\* handle_stdin_arg.  The mutant pushes Stdin again for a second "-".
handle_stdin_arg_again(mode, parsed, stdin_used) ==
    IF mode \in {"ExtractTickets", "UpdateTickets"}
    THEN [ok |-> TRUE, stdin_used |-> TRUE,
          parsed |-> [parsed EXCEPT
                        !.input_sources = Append(parsed.input_sources, Stdin)]]
    ELSE IF mode = "ParseNotes"
    THEN ArgsErr("parse-notes reads from stdin implicitly; '-' is not accepted")
    ELSE ArgsErr("Orchestrator mode does not accept stdin ('-')")

handle_stdin_arg(mode, parsed, stdin_used) ==
    IF mode \in {"ExtractTickets", "UpdateTickets"}
    THEN (IF stdin_used
          THEN ArgsErr("stdin (-) cannot be specified more than once")
          ELSE [ok |-> TRUE, stdin_used |-> TRUE,
                parsed |-> [parsed EXCEPT
                              !.input_sources = Append(parsed.input_sources, Stdin)]])
    ELSE IF mode = "ParseNotes"
    THEN ArgsErr("parse-notes reads from stdin implicitly; '-' is not accepted")
    ELSE ArgsErr("Orchestrator mode does not accept stdin ('-')")

handle_file_arg(mode, arg, parsed) ==
    IF mode \in {"ExtractTickets", "UpdateTickets"}
    THEN [ok |-> TRUE,
          parsed |-> [parsed EXCEPT
                        !.input_sources = Append(parsed.input_sources, File(arg))]]
    ELSE IF mode = "ParseNotes"
    THEN ArgsErr("parse-notes does not accept file arguments")
    ELSE ArgsErr("Orchestrator mode does not accept file arguments")

\* the while loop of parse_flags_and_inputs from position i on
RECURSIVE parse_flags_and_inputs(_, _, _, _, _)
parse_flags_and_inputs(mode, a, i, parsed, stdin_used) ==
    IF i > Len(a) THEN [ok |-> TRUE, parsed |-> parsed]
    ELSE
      LET f == parse_common_flags(a, i, parsed)
      IN  IF ~f.ok THEN f
          ELSE IF f.flag
          THEN parse_flags_and_inputs(mode, a, f.i, f.parsed, stdin_used)
          ELSE IF a[i] = "-"
          THEN LET h == handle_stdin_arg(mode, parsed, stdin_used)
               IN  IF ~h.ok THEN h
                   ELSE parse_flags_and_inputs(mode, a, i + 1, h.parsed,
                                               h.stdin_used)
          ELSE IF starts_with_dashes(a[i]) THEN ArgsErr("Unknown flag")
          ELSE LET h == handle_file_arg(mode, a[i], parsed)
               IN  IF ~h.ok THEN h
                   ELSE parse_flags_and_inputs(mode, a, i + 1, h.parsed,
                                               stdin_used)

apply_defaults(mode, parsed) ==
    IF parsed.input_sources = <<>> /\ mode \in {"ExtractTickets", "UpdateTickets"}
    THEN [parsed EXCEPT !.input_sources = <<Stdin>>]
    ELSE parsed

\* validate_config: "" when the configuration is accepted, the message
\* otherwise
validate_config(mode, parsed) ==
    CASE mode = "ParseNotes" ->
           IF \/ parsed.linear_api_key # None \/ parsed.linear_org # None
              \/ parsed.dry_run \/ parsed.update_all_statuses
           THEN "parse-notes does not accept Linear credentials, --dry-run, or --update-all-statuses"
           ELSE ""
      [] mode = "ExtractTickets" ->
           IF \/ parsed.release_tag # None
              \/ parsed.linear_api_key # None \/ parsed.linear_org # None
              \/ parsed.dry_run \/ parsed.update_all_statuses
           THEN "extract-tickets does not accept --release-tag, Linear credentials, --dry-run, or --update-all-statuses"
           ELSE ""
      [] mode = "UpdateTickets" ->
           IF parsed.release_tag # None
           THEN "update-tickets does not accept --release-tag"
           ELSE ""
      [] mode = "Orchestrator" ->
           IF parsed.release_tag = None
           THEN "Orchestrator mode requires --release-tag flag"
           ELSE IF parsed.input_sources # <<>>
           THEN "Orchestrator mode does not accept input files"
           ELSE ""

\* Config::from_args, without --help and --version
from_args(a) ==
    LET m == parse_mode_and_start_index(a)
    IN  IF ~m.ok THEN m
        ELSE
          LET p == parse_flags_and_inputs(m.mode, a, m.start_idx, NoParsedArgs,
                                          FALSE)
          IN  IF ~p.ok THEN p
              ELSE
                LET parsed == apply_defaults(m.mode, p.parsed)
                    v == validate_config(m.mode, parsed)
                IN  IF v # "" THEN ArgsErr(v)
                    ELSE [ok |-> TRUE,
                          config |-> [mode |-> m.mode,
                                      release_tag |-> parsed.release_tag,
                                      linear_api_key |-> parsed.linear_api_key,
                                      linear_org |-> parsed.linear_org,
                                      input_sources |-> parsed.input_sources,
                                      dry_run |-> parsed.dry_run,
                                      update_all_statuses |->
                                          parsed.update_all_statuses]]

(***************************************************************************)
(* The state.                                                              *)
(***************************************************************************)
VARIABLES
    config,     \* the Config main built from the arguments
    environ,    \* the process environment: LINEAR_API_KEY, LINEAR_ORG
    pc,         \* where the running mode is
    result,     \* what the mode's run returned: "running", "Ok" or "Err"
    error,      \* the message of the Err run returned, "" otherwise
    srcIdx,     \* for_each_input_line: the source being read
    nLines,     \* lines read so far
    cur,        \* the line being handled and what is known about it
    calls,      \* the remote calls made for the line being handled
    log,        \* what the handling of the current line wrote to stderr
    out,        \* the lines printed on stdout, in order
    seen,       \* the HashSet of identifiers already printed
    found,      \* the identifiers discovered so far, in discovery order
    any_output, \* run's any_output flag
    nErr,       \* how many tickets failed in update_single_ticket
    creds,      \* the credentials run resolved: api_key, org
    children,   \* orchestrator: each stage process, its stdin and arguments
    waits,      \* the wait calls made on child processes, in order, with outcomes
    status,     \* orchestrator: the exit status collected for each stage
    exit_code,  \* the exit code of the process, None while it is running
    tracker,    \* the remote tracker: the state each ticket was moved to by
                \* the lines handled before the current one
    argv,       \* the command line arguments main was started with
    pipe,       \* the orchestrator's pipeline: the lines in each of the two
                \* pipes (1: parse-notes to extract-tickets, 2: extract-tickets
                \* to update-tickets)
    proc,       \* the orchestrator's pipeline: each stage process
    hist        \* the orchestrator's pipeline: what each stage read and wrote

vars == <<config, environ, pc, result, error, srcIdx, nLines, cur, calls, log,
          out, seen, found, any_output, nErr, creds, children, waits, status,
          exit_code, tracker, argv, pipe, proc, hist>>

stageVars == <<srcIdx, nLines, cur, calls, log, out, seen, found, any_output,
               nErr, creds>>
orchVars == <<children, waits, status>>
pipeVars == <<pipe, proc, hist>>


(***************************************************************************)
(* The inputs: the lines a stage may read and the responses the remote     *)
(* tracker may give.                                                       *)
(***************************************************************************)
T1 == <<"A","B","C","-","1">>
T2 == <<"X","Y","Z","-","2","2">>
InReview == <<"I","n"," ","R","e","v","i","e","w">>
PASSING_uc == <<"P","A","S","S","I","N","G">>
NotCompleted == <<"N","o","t"," ","C","o","m","p","l","e","t","e","d">>
Todo == <<"T","o","d","o">>
Abandoned == <<"A","b","a","n","d","o","n","e","d">>

\* what update-tickets may find on a line of its input
UpdateLines ==
    { T1, T2, <<" ">> \o T1 \o <<" ", "\t">>,      \* valid, one padded
      <<>>, <<" ", "\t">>,                          \* blank
      <<"a","b","c","-","1">>, <<"A","B","-","1">>, \* invalid
      <<"A","B","C","-">>, T1 \o <<"-","2">> }

\* the state names an issue may be in; "Abandoned" holds "done" in lower case
StateNames == {Passing, PASSING_uc, InReview, Done, NotCompleted, Abandoned}

\* the tickets of the model
TicketIds == {T1, T2}
\* a ticket this run has not moved
NotMoved == <<>>

NullIssue == [null |-> TRUE, state |-> <<>>, team |-> ""]
Issue(state, team) == [null |-> FALSE, state |-> state, team |-> team]

\* the outcomes of get_issue_details: curl failed, or a response body
IssueResponses ==
    { [transport |-> FALSE, errors |-> <<>>, issue |-> NullIssue],
      [transport |-> TRUE, errors |-> <<"Entity not found">>, issue |-> NullIssue],
      [transport |-> TRUE, errors |-> <<>>, issue |-> NullIssue],
      [transport |-> TRUE, errors |-> <<>>, issue |-> Issue(Passing, "null")],
      [transport |-> TRUE, errors |-> <<>>, issue |-> Issue(InReview, "")],
      \* an error entry without a message, next to the data
      [transport |-> TRUE, errors |-> <<NoMessage>>,
       issue |-> Issue(Passing, "team-1")] }
    \cup { [transport |-> TRUE, errors |-> <<>>, issue |-> Issue(n, "team-1")] :
             n \in StateNames }

Node(id, name) == [id |-> id, name |-> name]
Workflows ==
    { <<Node("s-todo", Todo), Node("s-done", Done), Node("s-compl", Completed)>>,
      <<Node("s-aband", Abandoned), Node("s-lc", completed_lc)>>,
      <<Node("s-todo", Todo), Node("s-review", InReview)>> }

\* the outcomes of get_workflow_states
StatesResponses ==
    { [transport |-> FALSE, errors |-> <<>>, nodes |-> <<>>],
      [transport |-> TRUE, errors |-> <<"Entity not found">>, nodes |-> <<>>],
      [transport |-> TRUE, errors |-> <<NoMessage>>,
       nodes |-> <<Node("s-todo", Todo), Node("s-done", Done)>>] }
    \cup { [transport |-> TRUE, errors |-> <<>>, nodes |-> w] : w \in Workflows }

\* the outcomes of the issueUpdate mutation: success is jq's rendering of
\* .data.issueUpdate.success
UpdateResponses ==
    { [transport |-> FALSE, errors |-> <<>>, success |-> "null"],
      [transport |-> TRUE, errors |-> <<>>, success |-> "true"],
      [transport |-> TRUE, errors |-> <<>>, success |-> "false"],
      [transport |-> TRUE, errors |-> <<"Forbidden">>, success |-> "null"],
      [transport |-> TRUE, errors |-> <<"Forbidden">>, success |-> "true"],
      [transport |-> TRUE, errors |-> <<"">>, success |-> "true"] }

\* extract_jq_value on an id: jq -r prints it ("null" for null), trimmed;
\* the ids of the model carry no white space
trim_id(id) == id

(***************************************************************************)
(* update_single_ticket, cut at its three remote calls.  Each part says    *)
(* what the function does with the response: return (next = "return", with *)
(* res "Some", "None" or "Err") or go on to the next call.                 *)
(***************************************************************************)
Ret(res, err, state) ==
    [next |-> "return", res |-> res, err |-> err, state |-> state,
     team |-> "", state_id |-> ""]

\* the decision on the fetched state: dry-run, already completed, not
\* qualifying, missing team, or on to the team lookup.  The mutant drops the
\* dry-run return.
classify_without_dry_run(current_state_name, team_id, dry_run, update_all_statuses) ==
    LET is_completed == state_is_done_or_completed(current_state_name)
        should == should_update(current_state_name, update_all_statuses)
    IN  IF is_completed THEN Ret("Some", "", current_state_name)
        ELSE IF ~should THEN Ret("None", "", current_state_name)
        ELSE IF team_id = "null" \/ team_id = ""
        THEN Ret("Err", "Could not find team ID", current_state_name)
        ELSE [next |-> "states", res |-> "", err |-> "",
              state |-> current_state_name, team |-> team_id, state_id |-> ""]

classify(current_state_name, team_id, dry_run, update_all_statuses) ==
    LET is_completed == state_is_done_or_completed(current_state_name)
        should == should_update(current_state_name, update_all_statuses)
    IN  IF dry_run
        THEN (IF should THEN Ret("Some", "", current_state_name)
              ELSE Ret("None", "", current_state_name))
        ELSE IF is_completed THEN Ret("Some", "", current_state_name)
        ELSE IF ~should THEN Ret("None", "", current_state_name)
        ELSE IF team_id = "null" \/ team_id = ""
        THEN Ret("Err", "Could not find team ID", current_state_name)
        ELSE [next |-> "states", res |-> "", err |-> "",
              state |-> current_state_name, team |-> team_id, state_id |-> ""]

\* from the response of get_issue_details to the team lookup.  The mutant
\* does not look whether the issue is null.
after_issue_details_without_null_check(r, dry_run, update_all_statuses) ==
    IF ~r.transport THEN Ret("Err", "curl request failed", <<>>)
    ELSE IF ~ensure_no_graphql_errors(r.errors)
    THEN Ret("Err", "Linear API returned errors", <<>>)
    ELSE classify(trim(r.issue.state), trim_id(r.issue.team), dry_run,
                  update_all_statuses)

after_issue_details(r, dry_run, update_all_statuses) ==
    IF ~r.transport THEN Ret("Err", "curl request failed", <<>>)
    ELSE IF ~ensure_no_graphql_errors(r.errors)
    THEN Ret("Err", "Linear API returned errors", <<>>)
    ELSE IF r.issue.null THEN Ret("Err", "Issue not found", <<>>)
    ELSE classify(trim(r.issue.state), trim_id(r.issue.team), dry_run,
                  update_all_statuses)

\* from the response of get_workflow_states to the mutation
after_workflow_states(r, state, team) ==
    IF ~r.transport THEN Ret("Err", "curl request failed", state)
    ELSE IF ~ensure_no_graphql_errors(r.errors)
    THEN Ret("Err", "Linear API returned errors", state)
    ELSE
      LET completed_state_id == find_completed_state(r.nodes)
      IN  IF completed_state_id = <<>>
          THEN Ret("Err", "Could not find a 'Completed' or 'Done' state", state)
          ELSE [next |-> "update", res |-> "", err |-> "", state |-> state,
                team |-> team, state_id |-> completed_state_id[1]]

\* update_issue_state and the check of its response.  The mutant does not
\* look at the success value.
after_update_issue_state_ignoring_success(r, state) ==
    IF ~r.transport THEN Ret("Err", "curl request failed", state)
    ELSE IF ~ensure_no_graphql_errors(r.errors)
    THEN Ret("Err", "Linear API returned errors", state)
    ELSE Ret("Some", "", state)

after_update_issue_state(r, state) ==
    IF ~r.transport THEN Ret("Err", "curl request failed", state)
    ELSE IF r.success # "true" THEN Ret("Err", "Update failed", state)
    ELSE IF ~ensure_no_graphql_errors(r.errors)
    THEN Ret("Err", "Linear API returned errors", state)
    ELSE Ret("Some", "", state)


(***************************************************************************)
(* The initial state: main has parsed the arguments into a Config and is   *)
(* about to dispatch on config.mode (main.rs).                             *)
(***************************************************************************)
NoCur == [line |-> <<>>, id |-> <<>>, state |-> <<>>, team |-> "",
          state_id |-> "", res |-> "", err |-> ""]
NoCreds == [api_key |-> "", org |-> ""]
Stages == {"parse-notes", "extract-tickets", "update-tickets"}
\* a stage process of the pipeline before it has read anything: where it is
\* (pc), the lines it still has to print for the line it read (todo), its
\* set of identifiers already printed (seen), its exit status (code)
NoStage == [pc |-> "read", todo |-> <<>>, seen |-> {}, code |-> ""]
\* nothing read, nothing written: the lines each stage read (got) and
\* printed (sent), the ids grep found for each PR extract-tickets fetched
\* (found), the URLs update_single_ticket returned (due)
NoHist == [got |-> [s \in Stages |-> <<>>], sent |-> [s \in Stages |-> <<>>],
           found |-> <<>>, due |-> <<>>]
\* a stage process that has not been spawned
NoChild == [state |-> "none", stdin |-> "", args |-> <<>>]

\* println!: the line is appended to the process's standard output.  The
\* mutant puts it in front of what was printed before.
println_in_front(stdout, line) == <<line>> \o stdout

println(stdout, line) == Append(stdout, line)

\* a log line: the message and what it is about (a URL, a line, or <<>>)
LogLine(msg, about) == [msg |-> msg, about |-> about]

\* where the credentials may come from: flags and environment
CredCases ==
    { [key |-> Some("key-flag"), org |-> Some("org-flag"),
       envkey |-> Some("key-env"), envorg |-> Some("org-env")],
      [key |-> None, org |-> None,
       envkey |-> Some("key-env"), envorg |-> Some("org-env")],
      [key |-> None, org |-> Some("org-flag"), envkey |-> None, envorg |-> None],
      [key |-> Some("key-flag"), org |-> None, envkey |-> None, envorg |-> None] }

\* the input source lists of extract-tickets and update-tickets
SourceLists ==
    { <<Stdin>>, <<File("a.txt"), Stdin>>, <<File("a.txt"), File("b.txt")>> }

InitRun ==
    /\ result = "running"
    /\ error = ""
    /\ srcIdx = 1
    /\ nLines = 0
    /\ cur = NoCur
    /\ calls = <<>>
    /\ log = <<>>
    /\ out = <<>>
    /\ seen = {}
    /\ found = <<>>
    /\ any_output = FALSE
    /\ nErr = 0
    /\ creds = NoCreds
    /\ children = [s \in Stages |-> NoChild]
    /\ waits = <<>>
    /\ status = [s \in Stages |-> "none"]
    /\ exit_code = None
    /\ tracker = [id \in TicketIds |-> NotMoved]
    /\ pipe = [p \in {1, 2} |-> <<>>]
    /\ proc = [s \in Stages |-> NoStage]
    /\ hist = NoHist

\* main has parsed the arguments: they play no part any more
InitCommon == pc = "start" /\ InitRun /\ argv = <<>>

InitUpdate ==
    /\ \E c \in CredCases, src \in SourceLists, d \in BOOLEAN, u \in BOOLEAN :
         /\ config = [mode |-> "UpdateTickets", release_tag |-> None,
                      linear_api_key |-> c.key, linear_org |-> c.org,
                      input_sources |-> src, dry_run |-> d,
                      update_all_statuses |-> u]
         /\ environ = [LINEAR_API_KEY |-> c.envkey, LINEAR_ORG |-> c.envorg]
    /\ InitCommon

(***************************************************************************)
(* main after the selected mode's run has returned: an Err is printed on   *)
(* stderr as "Error: ..." and the process exits with code 1; otherwise     *)
(* main returns and the process exits with code 0.                         *)
(***************************************************************************)
ErrorLine(e) == [msg |-> "Error", about |-> <<e>>]

\* the NAME constant of each stage module, which its log! lines pass to
\* utils::log as the prefix; orchestrator.rs has none and logs nothing
NAME(mode) ==
    CASE mode = "ParseNotes" -> "parse-notes"
      [] mode = "ExtractTickets" -> "extract-tickets"
      [] mode = "UpdateTickets" -> "update-tickets"
      [] OTHER -> ""

\* what a line of stderr starts with, up to its first colon: "Error" when
\* main printed it, the stage's NAME when utils::log did
prefix_of(line, mode) == IF line.msg = "Error" THEN "Error" ELSE NAME(mode)

\* The mutant ignores what run returned.
MainExitAlwaysZero ==
    /\ pc = "exit"
    /\ exit_code = None
    /\ log' = log
    /\ exit_code' = Some(0)
    /\ UNCHANGED <<config, environ, argv, pipeVars, tracker, pc, result,
                   error, srcIdx, nLines, cur, calls, out, seen, found,
                   any_output, nErr, creds, orchVars>>

MainExit ==
    /\ pc = "exit"
    /\ exit_code = None
    /\ IF result = "Err"
       THEN log' = Append(log, ErrorLine(error)) /\ exit_code' = Some(1)
       ELSE log' = log /\ exit_code' = Some(0)
    /\ UNCHANGED <<config, environ, argv, pipeVars, tracker, pc, result,
                   error, srcIdx, nLines, cur, calls, out, seen, found,
                   any_output, nErr, creds, orchVars>>

(***************************************************************************)
(* utils::for_each_input_line, shared by extract-tickets and               *)
(* update-tickets: pc = "open" before a source is opened, "lines" while    *)
(* its lines are read, "finish" once the last source is exhausted.         *)
(***************************************************************************)
Fail(msg) ==
    /\ result' = "Err"
    /\ error' = msg
    /\ pc' = "exit"

(***************************************************************************)
(* main from the start: Config::from_args parses the command line; its Err *)
(* is printed and the process exits with code 1 (main.rs:51-58), its Ok is *)
(* the Config main dispatches on.                                          *)
(***************************************************************************)
\* the words a command line of the model is made of
ArgWords ==
    {"parse-notes", "extract-tickets", "update-tickets", "-", "a.txt",
     "--dry-run", "--linear-org", "--linear-org=acme", "--release-tag=v1",
     "--bogus"}
ArgLists == UNION {[1..n -> ArgWords] : n \in 0..MaxArgs}

\* the Config before the command line is parsed
NoConfig ==
    [mode |-> "", release_tag |-> None, linear_api_key |-> None,
     linear_org |-> None, input_sources |-> <<>>, dry_run |-> FALSE,
     update_all_statuses |-> FALSE]

InitArgs ==
    /\ argv \in ArgLists
    /\ config = NoConfig
    /\ environ = [LINEAR_API_KEY |-> None, LINEAR_ORG |-> None]
    /\ pc = "args"
    /\ InitRun

MainFromArgs ==
    /\ pc = "args"
    /\ LET r == from_args(argv)
       IN  IF r.ok
           THEN /\ config' = r.config
                /\ pc' = "start"
                /\ UNCHANGED <<result, error>>
           ELSE Fail(r.err) /\ UNCHANGED config
    /\ UNCHANGED <<environ, argv, pipeVars, exit_code, tracker, srcIdx,
                   nLines, cur, calls, log, out, seen, found, any_output,
                   nErr, creds, orchVars>>

NextArgs ==
    \/ MainFromArgs
    \/ MainExit

SpecArgs == InitArgs /\ [][NextArgs]_vars


\* "Failed to open file {path}: {e}", without the system's words
open_error(path) ==
    CASE path = "a.txt" -> "Failed to open file a.txt"
      [] path = "b.txt" -> "Failed to open file b.txt"

\* the next source is opened when its turn comes; a file may fail to open.
\* The mutant opens every file of the list before the first line is read.
ForEachOpenAllFirst ==
    /\ pc = "open"
    /\ IF srcIdx = 1
       THEN \E failed \in 0..Len(config.input_sources) :
              IF failed = 0 \/ config.input_sources[failed].kind = "Stdin"
              THEN pc' = "lines" /\ UNCHANGED <<result, error>>
              ELSE Fail(open_error(config.input_sources[failed].path))
       ELSE pc' = "lines" /\ UNCHANGED <<result, error>>
    /\ UNCHANGED <<config, environ, argv, pipeVars, exit_code, tracker,
                   stageVars, orchVars>>

ForEachOpen ==
    /\ pc = "open"
    /\ LET source == config.input_sources[srcIdx]
       IN  IF source.kind = "Stdin"
           THEN pc' = "lines" /\ UNCHANGED <<result, error>>
           ELSE \E opened \in BOOLEAN :
                  IF opened THEN pc' = "lines" /\ UNCHANGED <<result, error>>
                  ELSE Fail(open_error(source.path))
    /\ UNCHANGED <<config, environ, argv, pipeVars, exit_code, tracker,
                   stageVars, orchVars>>

\* reading a line fails: the error leaves the loop through `?`
ForEachReadError ==
    /\ pc = "lines"
    /\ Fail("Failed to read")
    /\ UNCHANGED <<config, environ, argv, pipeVars, exit_code, tracker,
                   stageVars, orchVars>>

\* end of the current source: on to the next one, or out of the loop
ForEachEof ==
    /\ pc = "lines"
    /\ IF srcIdx < Len(config.input_sources)
       THEN srcIdx' = srcIdx + 1 /\ pc' = "open"
       ELSE srcIdx' = srcIdx /\ pc' = "finish"
    /\ UNCHANGED <<config, environ, argv, pipeVars, exit_code, tracker,
                   result, error, nLines, cur, calls, log, out, seen, found,
                   any_output, nErr, creds, orchVars>>

\* run's epilogue after the loop: log "done" (and "no changes made"), Ok(())
StageFinish ==
    /\ pc = "finish"
    /\ log' = IF any_output THEN <<LogLine("done", <<>>)>>
              ELSE <<LogLine("done", <<>>), LogLine("no changes made", <<>>)>>
    /\ result' = "Ok"
    /\ pc' = "exit"
    /\ UNCHANGED <<config, environ, argv, pipeVars, exit_code, tracker, error,
                   srcIdx, nLines, cur, calls, out, seen, found, any_output,
                   nErr, creds, orchVars>>

(***************************************************************************)
(* update_tickets::run                                                     *)
(***************************************************************************)
\* the credentials are resolved before any line is read
UpdateRunStart ==
    /\ config.mode = "UpdateTickets"
    /\ pc = "start"
    /\ LET key == get_linear_api_key(config, environ)
           org == get_linear_org(config, environ)
       IN  IF ~key.ok THEN Fail(key.val) /\ UNCHANGED <<creds, log>>
           ELSE IF ~org.ok THEN Fail(org.val) /\ UNCHANGED <<creds, log>>
           ELSE /\ creds' = [api_key |-> key.val, org |-> org.val]
                /\ log' = (IF config.dry_run
                           THEN <<LogLine("Dry-run mode enabled", <<>>)>>
                           ELSE <<>>)
                          \o <<LogLine("reading ticket IDs from input", <<>>)>>
                /\ pc' = "open"
                /\ UNCHANGED <<result, error>>
    /\ UNCHANGED <<config, environ, argv, pipeVars, exit_code, tracker,
                   srcIdx, nLines, cur, calls, out, seen, found, any_output,
                   nErr, orchVars>>

\* the name of the workflow state with the given id
state_name_of(nodes, id) ==
    LET idx == {i \in 1..Len(nodes) : nodes[i].id = id}
    IN  nodes[CHOOSE i \in idx : TRUE].name

\* the tracker as the run knows it once the handling of a line is over: when
\* the line ended in a mutation the tracker answered with success, the ticket
\* is in the state whose id was sent, one of the states the lookup (the
\* second call) returned
tracker_after(t, c, cs) ==
    IF /\ Len(cs) = 3
       /\ cs[3].op = "update"
       /\ cs[3].resp.transport
       /\ cs[3].resp.success = "true"
    THEN [t EXCEPT ![c.id] = state_name_of(cs[2].resp.nodes, c.state_id)]
    ELSE t

\* the closure up to the call of update_single_ticket: blank lines are
\* skipped, invalid ones logged and skipped
UpdateOnLine ==
    /\ config.mode = "UpdateTickets"
    /\ pc = "lines"
    /\ nLines < MaxLines
    /\ \E line \in UpdateLines :
         LET input_line == trim(line)
             parsed == parse_issue_id(input_line)
         IN  /\ nLines' = nLines + 1
             /\ calls' = <<>>
             /\ tracker' = tracker_after(tracker, cur, calls)
             /\ IF input_line = <<>>
                THEN /\ cur' = [NoCur EXCEPT !.line = line, !.res = "Blank"]
                     /\ log' = <<>>
                     /\ pc' = "lines"
                ELSE IF ~parsed.ok
                THEN /\ cur' = [NoCur EXCEPT !.line = line, !.res = "Invalid",
                                             !.err = parsed.err]
                     /\ log' = <<LogLine("Invalid input", input_line),
                                 LogLine("", input_line)>>
                     /\ pc' = "lines"
                ELSE /\ cur' = [NoCur EXCEPT !.line = line, !.id = parsed.id,
                                             !.res = "pending"]
                     /\ log' = <<LogLine("processing",
                                         issue_url(creds.org, parsed.id))>>
                     /\ pc' = "issue"
    /\ UNCHANGED <<config, environ, argv, pipeVars, exit_code, result, error,
                   srcIdx, out, seen, found, any_output, nErr, creds,
                   orchVars>>

\* the closure's match on what update_single_ticket returned: a URL is
\* printed, nothing happens, or the error is logged with the URL; the closure
\* returns Ok(()) in each case.  The mutant lets the error leave with `?`.
UpdateReturnPropagating(a) ==
    LET url == issue_url(creds.org, cur.id)
    IN  /\ cur' = [cur EXCEPT !.res = a.res, !.err = a.err, !.state = a.state]
        /\ IF a.res = "Some"
           THEN /\ out' = println(out, url)
                /\ any_output' = TRUE
                /\ pc' = "lines"
                /\ UNCHANGED <<log, nErr, result, error>>
           ELSE IF a.res = "None"
           THEN pc' = "lines" /\ UNCHANGED <<out, any_output, log, nErr, result, error>>
           ELSE /\ Fail(a.err)
                /\ nErr' = nErr + 1
                /\ UNCHANGED <<out, any_output, log>>

\* This mutant prints the URL of a failed ticket on stdout as well.
UpdateReturnPrintingFailures(a) ==
    LET url == issue_url(creds.org, cur.id)
    IN  /\ cur' = [cur EXCEPT !.res = a.res, !.err = a.err, !.state = a.state]
        /\ pc' = "lines"
        /\ UNCHANGED <<result, error>>
        /\ IF a.res = "Some"
           THEN /\ out' = println(out, url)
                /\ any_output' = TRUE
                /\ UNCHANGED <<log, nErr>>
           ELSE IF a.res = "None"
           THEN UNCHANGED <<out, any_output, log, nErr>>
           ELSE /\ log' = log \o <<LogLine("Failed to update", url)>>
                /\ out' = println(out, url)
                /\ nErr' = nErr + 1
                /\ UNCHANGED any_output

\* This mutant fetches the issue once more when the first fetch failed.
UpdateReturnRetrying(a) ==
    LET url == issue_url(creds.org, cur.id)
    IN  IF a.res = "Err" /\ calls = <<>>
        THEN /\ pc' = "issue"
             /\ UNCHANGED <<cur, result, error, out, any_output, log, nErr>>
        ELSE /\ cur' = [cur EXCEPT !.res = a.res, !.err = a.err,
                                   !.state = a.state]
             /\ pc' = "lines"
             /\ UNCHANGED <<result, error>>
             /\ IF a.res = "Some"
                THEN /\ out' = println(out, url)
                     /\ any_output' = TRUE
                     /\ UNCHANGED <<log, nErr>>
                ELSE IF a.res = "None"
                THEN UNCHANGED <<out, any_output, log, nErr>>
                ELSE /\ log' = log \o <<LogLine("Failed to update", url),
                                        LogLine("", url)>>
                     /\ nErr' = nErr + 1
                     /\ UNCHANGED <<out, any_output>>

UpdateReturn(a) ==
    LET url == issue_url(creds.org, cur.id)
    IN  /\ cur' = [cur EXCEPT !.res = a.res, !.err = a.err, !.state = a.state]
        /\ pc' = "lines"
        /\ UNCHANGED <<result, error>>
        /\ IF a.res = "Some"
           THEN /\ out' = println(out, url)
                /\ any_output' = TRUE
                /\ UNCHANGED <<log, nErr>>
           ELSE IF a.res = "None"
           THEN UNCHANGED <<out, any_output, log, nErr>>
           ELSE /\ log' = log \o <<LogLine("Failed to update", url),
                                   LogLine("", url)>>
                /\ nErr' = nErr + 1
                /\ UNCHANGED <<out, any_output>>

\* update_single_ticket goes on to its next remote call
UpdateGo(a) ==
    /\ cur' = [cur EXCEPT !.state = a.state, !.team = a.team,
                          !.state_id = a.state_id]
    /\ pc' = a.next
    /\ UNCHANGED <<out, any_output, log, nErr, result, error>>

\* update_single_ticket: get_issue_details and the decision on its response
UpdateFetchIssue ==
    /\ pc = "issue"
    /\ \E r \in IssueResponses :
         LET a == after_issue_details(r, config.dry_run,
                                      config.update_all_statuses)
         IN  /\ IF a.next = "return" THEN UpdateReturn(a) ELSE UpdateGo(a)
             /\ calls' = Append(calls, [op |-> "issue", arg |-> "", resp |-> r])
    /\ UNCHANGED <<config, environ, argv, pipeVars, exit_code, tracker,
                   srcIdx, nLines, seen, found, creds, orchVars>>

\* update_single_ticket: get_workflow_states and find_completed_state
UpdateFetchStates ==
    /\ pc = "states"
    /\ \E r \in StatesResponses :
         LET a == after_workflow_states(r, cur.state, cur.team)
         IN  /\ IF a.next = "return" THEN UpdateReturn(a) ELSE UpdateGo(a)
             /\ calls' = Append(calls, [op |-> "states", arg |-> cur.team,
                                        resp |-> r])
    /\ UNCHANGED <<config, environ, argv, pipeVars, exit_code, tracker,
                   srcIdx, nLines, seen, found, creds, orchVars>>

\* update_single_ticket: the issueUpdate mutation
UpdateMutate ==
    /\ pc = "update"
    /\ \E r \in UpdateResponses :
         /\ UpdateReturn(after_update_issue_state(r, cur.state))
         /\ calls' = Append(calls, [op |-> "update", arg |-> cur.state_id,
                                    resp |-> r])
    /\ UNCHANGED <<config, environ, argv, pipeVars, exit_code, tracker,
                   srcIdx, nLines, seen, found, creds, orchVars>>

NextUpdate ==
    \/ UpdateRunStart
    \/ ForEachOpen
    \/ ForEachReadError
    \/ ForEachEof
    \/ StageFinish
    \/ UpdateOnLine
    \/ UpdateFetchIssue
    \/ UpdateFetchStates
    \/ UpdateMutate
    \/ MainExit

SpecUpdate == InitUpdate /\ [][NextUpdate]_vars


(***************************************************************************)
(* is_valid_ticket_id on its own: update-tickets holds some text, of upper  *)
(* and lower case letters, hyphens and digits, and asks whether it is a    *)
(* ticket id.                                                              *)
(***************************************************************************)
TicketIdChars == {"A", "Z", "a", "-", "7"}
TicketIdInputs == UNION {[1..n -> TicketIdChars] : n \in 0..MaxIdLen}

InitTicketId ==
    /\ config = [mode |-> "UpdateTickets", release_tag |-> None,
                 linear_api_key |-> Some("key-flag"),
                 linear_org |-> Some("org-flag"), input_sources |-> <<Stdin>>,
                 dry_run |-> FALSE, update_all_statuses |-> FALSE]
    /\ environ = [LINEAR_API_KEY |-> None, LINEAR_ORG |-> None]
    /\ argv = <<>>
    /\ pc = "parse"
    /\ \E input \in TicketIdInputs : cur = [NoCur EXCEPT !.line = input]
    /\ result = "running" /\ error = ""
    /\ srcIdx = 1 /\ nLines = 1
    /\ calls = <<>> /\ log = <<>> /\ out = <<>>
    /\ seen = {} /\ found = <<>> /\ any_output = FALSE /\ nErr = 0
    /\ creds = [api_key |-> "key-flag", org |-> "org-flag"]
    /\ children = [s \in Stages |-> NoChild]
    /\ waits = <<>>
    /\ status = [s \in Stages |-> "none"]
    /\ exit_code = None
    /\ tracker = [id \in TicketIds |-> NotMoved]
    /\ pipe = [p \in {1, 2} |-> <<>>]
    /\ proc = [s \in Stages |-> NoStage]
    /\ hist = NoHist

\* the call: the verdict is kept with the text
IsValidTicketId ==
    /\ pc = "parse"
    /\ cur' = [cur EXCEPT !.res = IF is_valid_ticket_id(cur.line)
                                   THEN "valid" ELSE "invalid"]
    /\ pc' = "parsed"
    /\ UNCHANGED <<config, environ, argv, pipeVars, exit_code, tracker,
                   result, error, srcIdx, nLines, calls, log, out, seen,
                   found, any_output, nErr, creds, orchVars>>

NextTicketId == IsValidTicketId

SpecTicketId == InitTicketId /\ [][NextTicketId]_vars

(***************************************************************************)
(* orchestrator::run.  The three stage processes are seen from the parent: *)
(* a spawn succeeds or fails, a wait returns an exit status or fails.      *)
(***************************************************************************)
\* the command line of stage 3: the two flags are passed when set
update_args_with_credentials_only(cfg, key, org) ==
    <<"update-tickets", "--linear-api-key", key, "--linear-org", org>>

update_args(cfg, key, org) ==
    <<"update-tickets", "--linear-api-key", key, "--linear-org", org>>
    \o (IF cfg.dry_run THEN <<"--dry-run">> ELSE <<>>)
    \o (IF cfg.update_all_statuses THEN <<"--update-all-statuses">> ELSE <<>>)

\* the order of the three wait calls.  The mutant waits in spawn order.
WaitOrderAsSpawned == <<"parse-notes", "extract-tickets", "update-tickets">>

WaitOrder == <<"update-tickets", "extract-tickets", "parse-notes">>

\* the final test on the three exit statuses.  The mutant looks at the last
\* stage only, as a shell pipeline without pipefail does.
pipeline_failed_last_stage_only(parse_status, extract_status, update_status) ==
    update_status # "success"

pipeline_failed(parse_status, extract_status, update_status) ==
    \/ parse_status # "success"
    \/ extract_status # "success"
    \/ update_status # "success"

\* the Config run is called with: run checks the release tag itself, so it
\* may be missing here
\* the orchestrator is started with each flag given or not, and each
\* environment variable set or not
OrchCredCases ==
    [key : {None, Some("key-flag")}, org : {None, Some("org-flag")},
     envkey : {None, Some("key-env")}, envorg : {None, Some("org-env")}]

InitOrch ==
    /\ \E tag \in {None, Some("v1.2.3")}, c \in OrchCredCases, d \in BOOLEAN,
          u \in BOOLEAN :
         /\ config = [mode |-> "Orchestrator", release_tag |-> tag,
                      linear_api_key |-> c.key, linear_org |-> c.org,
                      input_sources |-> <<>>, dry_run |-> d,
                      update_all_statuses |-> u]
         /\ environ = [LINEAR_API_KEY |-> c.envkey, LINEAR_ORG |-> c.envorg]
    /\ InitCommon

\* the release tag and the credentials are resolved, then the executable path
OrchValidate ==
    /\ config.mode = "Orchestrator"
    /\ pc = "start"
    /\ LET key == get_linear_api_key(config, environ)
           org == get_linear_org(config, environ)
       IN  IF config.release_tag = None
           THEN Fail("Orchestrator mode requires --release-tag flag")
                /\ UNCHANGED creds
           ELSE IF ~key.ok THEN Fail(key.val) /\ UNCHANGED creds
           ELSE IF ~org.ok THEN Fail(org.val) /\ UNCHANGED creds
           ELSE \E exe \in BOOLEAN :
                  IF exe
                  THEN /\ creds' = [api_key |-> key.val, org |-> org.val]
                       /\ pc' = "spawn1"
                       /\ UNCHANGED <<result, error>>
                  ELSE Fail("Failed to get current executable path")
                       /\ UNCHANGED creds
    /\ UNCHANGED <<config, environ, argv, pipeVars, exit_code, tracker,
                   srcIdx, nLines, cur, calls, log, out, seen, found,
                   any_output, nErr, orchVars>>

\* the messages of a failed spawn and of a missing stdout handle
spawn_error(stage) ==
    CASE stage = "parse-notes" -> "Failed to spawn parse-notes"
      [] stage = "extract-tickets" -> "Failed to spawn extract-tickets"
      [] stage = "update-tickets" -> "Failed to spawn update-tickets"
capture_error(stage) ==
    CASE stage = "parse-notes" -> "Failed to capture parse-notes stdout"
      [] stage = "extract-tickets" -> "Failed to capture extract-tickets stdout"

\* spawn one stage and take its stdout handle.  how = "spawn_error": the
\* process was not started; "no_stdout": it was, but the handle is missing.
\* The mutant goes on to the next stage when the process was not started.
OrchSpawnGoingOn(stage, stdin, args, capture, nextpc) ==
    /\ \E how \in {"ok", "spawn_error"} \cup (IF capture THEN {"no_stdout"} ELSE {}) :
         IF how = "spawn_error"
         THEN pc' = nextpc /\ UNCHANGED <<result, error, children>>
         ELSE /\ children' = [children EXCEPT ![stage] =
                                [state |-> "running", stdin |-> stdin, args |-> args]]
              /\ IF how = "no_stdout" THEN Fail(capture_error(stage))
                 ELSE pc' = nextpc /\ UNCHANGED <<result, error>>
    /\ UNCHANGED <<config, environ, argv, pipeVars, exit_code, tracker,
                   stageVars, waits, status>>

OrchSpawn(stage, stdin, args, capture, nextpc) ==
    /\ \E how \in {"ok", "spawn_error"} \cup (IF capture THEN {"no_stdout"} ELSE {}) :
         IF how = "spawn_error"
         THEN Fail(spawn_error(stage)) /\ UNCHANGED children
         ELSE /\ children' = [children EXCEPT ![stage] =
                                [state |-> "running", stdin |-> stdin, args |-> args]]
              /\ IF how = "no_stdout" THEN Fail(capture_error(stage))
                 ELSE pc' = nextpc /\ UNCHANGED <<result, error>>
    /\ UNCHANGED <<config, environ, argv, pipeVars, exit_code, tracker,
                   stageVars, waits, status>>

OrchSpawnParse ==
    /\ pc = "spawn1"
    /\ OrchSpawn("parse-notes", "inherit",
                 <<"parse-notes", "--release-tag", config.release_tag[1]>>,
                 TRUE, "spawn2")

OrchSpawnExtract ==
    /\ pc = "spawn2"
    /\ OrchSpawn("extract-tickets", "parse-notes", <<"extract-tickets">>,
                 TRUE, "spawn3")

OrchSpawnUpdate ==
    /\ pc = "spawn3"
    /\ OrchSpawn("update-tickets", "extract-tickets",
                 update_args(config, creds.api_key, creds.org), FALSE, "wait1")

\* the k-th wait call: it returns the child's exit status, or fails
OrchWait(k, nextpc) ==
    LET stage == WaitOrder[k]
    IN  \E o \in {"success", "failure", "wait_error"} :
          /\ waits' = Append(waits, [stage |-> stage, outcome |-> o])
          /\ IF o = "wait_error"
             THEN Fail("Failed to wait") /\ UNCHANGED <<children, status>>
             ELSE /\ children' = [children EXCEPT ![stage].state = "waited"]
                  /\ status' = [status EXCEPT ![stage] = o]
                  /\ pc' = nextpc
                  /\ UNCHANGED <<result, error>>
          /\ UNCHANGED <<config, environ, argv, pipeVars, exit_code, tracker,
                         stageVars>>

OrchWaitFirst == pc = "wait1" /\ OrchWait(1, "wait2")

OrchWaitSecond == pc = "wait2" /\ OrchWait(2, "wait3")

OrchWaitThird == pc = "wait3" /\ OrchWait(3, "check")

\* the aggregate result
OrchCheck ==
    /\ pc = "check"
    /\ IF pipeline_failed(status["parse-notes"], status["extract-tickets"],
                          status["update-tickets"])
       THEN Fail("Pipeline failed")
       ELSE result' = "Ok" /\ pc' = "exit" /\ UNCHANGED error
    /\ UNCHANGED <<config, environ, argv, pipeVars, exit_code, tracker,
                   stageVars, orchVars>>

NextOrch ==
    \/ OrchValidate
    \/ OrchSpawnParse
    \/ OrchSpawnExtract
    \/ OrchSpawnUpdate
    \/ OrchWaitFirst
    \/ OrchWaitSecond
    \/ OrchWaitThird
    \/ OrchCheck
    \/ MainExit

SpecOrch == InitOrch /\ [][NextOrch]_vars


(***************************************************************************)
(* parse_notes.rs                                                          *)
(***************************************************************************)
PullUrl == <<"h","t","t","p","s",":","/","/","g","i","t","h","u","b",".",
             "c","o","m","/","o","/","r","/","p","u","l","l","/">>

\* what grep -oE prints for the two reference forms
NoteMatches ==
    { <<"#","5">>, <<"#","7">>, <<"#","1","2">>,
      PullUrl \o <<"5">>, PullUrl \o <<"1","2">> }

\* str::rsplit('/').next(): the text after the last '/', all of it when none
last_segment(s) ==
    LET idx == {i \in 1..Len(s) : s[i] = "/"}
    IN  IF idx = {} THEN s
        ELSE SubSeq(s, (CHOOSE i \in idx : \A j \in idx : i >= j) + 1, Len(s))

\* the key a match is deduplicated and printed under: strip_prefix('#'),
\* else the last path segment.  The mutant keeps a URL whole.
pr_number_of_hash_form_only(matched) ==
    IF Len(matched) > 0 /\ matched[1] = "#" THEN Tail(matched)
    ELSE matched

pr_number(matched) ==
    IF Len(matched) > 0 /\ matched[1] = "#" THEN Tail(matched)
    ELSE last_segment(matched)

InitNotes ==
    /\ \E tag \in {None, Some("v1.2.3")} :
         config = [mode |-> "ParseNotes", release_tag |-> tag,
                   linear_api_key |-> None, linear_org |-> None,
                   input_sources |-> <<>>, dry_run |-> FALSE,
                   update_all_statuses |-> FALSE]
    /\ environ \in {[LINEAR_API_KEY |-> None, LINEAR_ORG |-> None]}
    /\ InitCommon

\* run up to the reader loop: with a release tag gh is spawned first, then
\* grep is spawned on the notes
NotesStart ==
    /\ config.mode = "ParseNotes"
    /\ pc = "start"
    /\ \E how \in {"ok", "grep_spawn_error"}
                  \cup (IF config.release_tag # None THEN {"gh_spawn_error"} ELSE {}) :
         /\ IF how = "ok" THEN pc' = "matches" /\ UNCHANGED <<result, error>>
            ELSE IF how = "gh_spawn_error" THEN Fail("Failed to execute gh command")
            ELSE Fail("Failed to spawn grep")
         /\ log' = <<LogLine("streaming release notes", <<>>)>>
    /\ UNCHANGED <<config, environ, argv, pipeVars, exit_code, tracker,
                   srcIdx, nLines, cur, calls, out, seen, found, any_output,
                   nErr, creds, orchVars>>

\* one iteration of the reader loop: normalise the match and print it unless
\* it was printed before
NotesOnMatch ==
    /\ pc = "matches"
    /\ nLines < MaxMatches
    /\ \E matched \in NoteMatches :
         LET num == pr_number(matched)
         IN  /\ nLines' = nLines + 1
             /\ found' = Append(found, matched)
             /\ cur' = [NoCur EXCEPT !.line = matched, !.id = num]
             /\ IF num \notin seen
                THEN /\ seen' = seen \cup {num}
                     /\ out' = println(out, num)
                     /\ any_output' = TRUE
                ELSE UNCHANGED <<seen, out, any_output>>
    /\ UNCHANGED <<config, environ, argv, pipeVars, exit_code, tracker, pc,
                   result, error, srcIdx, calls, log, nErr, creds, orchVars>>

\* reading grep's output fails
NotesReadError ==
    /\ pc = "matches"
    /\ Fail("Failed to read grep output")
    /\ UNCHANGED <<config, environ, argv, pipeVars, exit_code, tracker,
                   stageVars, orchVars>>

\* end of grep's output: grep is waited on; exit codes 0 and 1 are fine
NotesGrepExit ==
    /\ pc = "matches"
    /\ \E st \in {"wait_error", "grep_error"}
                 \cup (IF found = <<>> THEN {"no_match"} ELSE {"matched"}) :
         IF st = "wait_error" THEN Fail("Failed to wait for grep")
         ELSE IF st = "grep_error" THEN Fail("grep failed")
         ELSE /\ pc' = IF config.release_tag # None THEN "gh_wait" ELSE "finish"
              /\ UNCHANGED <<result, error>>
    /\ UNCHANGED <<config, environ, argv, pipeVars, exit_code, tracker,
                   stageVars, orchVars>>

\* stream_pr_numbers_from_release: gh is waited on after the reader; the
\* outcome of the wait is recorded in waits.  The mutant does not look at the
\* exit status of gh.
NotesGhWaitIgnoringStatus ==
    /\ pc = "gh_wait"
    /\ \E st \in {"wait_error", "failure", "success"} :
         /\ waits' = Append(waits, [stage |-> "gh", outcome |-> st])
         /\ IF st = "wait_error" THEN Fail("Failed to wait for gh")
            ELSE pc' = "finish" /\ UNCHANGED <<result, error>>
    /\ UNCHANGED <<config, environ, argv, pipeVars, exit_code, tracker,
                   stageVars, children, status>>

NotesGhWait ==
    /\ pc = "gh_wait"
    /\ \E st \in {"wait_error", "failure", "success"} :
         /\ waits' = Append(waits, [stage |-> "gh", outcome |-> st])
         /\ IF st = "wait_error" THEN Fail("Failed to wait for gh")
            ELSE IF st = "failure" THEN Fail("Failed to get release notes for tag")
            ELSE pc' = "finish" /\ UNCHANGED <<result, error>>
    /\ UNCHANGED <<config, environ, argv, pipeVars, exit_code, tracker,
                   stageVars, children, status>>

(***************************************************************************)
(* extract_tickets.rs                                                      *)
(***************************************************************************)
T3 == <<"H","I","P","-","1","2","3">>

\* what extract-tickets may find on a line of its input
PrLines == { <<"5">>, <<" ","7">>, <<>>, <<" ">> }

\* what grep -oE finds in the text of one PR, in text order
MatchLists == { <<>>, <<T1>>, <<T1, T1>>, <<T2, T1>>, <<T1, T3, T1>> }

\* find_and_output_tickets: the ids not seen before are printed in order.
\* The result is what was printed, in order, and the new seen set.
\* The mutant prints every match, seen or not.
find_and_output_tickets_without_seen(ids, seen_tickets) ==
    [printed |-> SelectSeq(ids, LAMBDA id : trim(id) # <<>>),
     seen |-> seen_tickets \cup {ids[i] : i \in 1..Len(ids)}]

RECURSIVE find_and_output_tickets(_, _)
find_and_output_tickets(ids, seen_tickets) ==
    IF ids = <<>> THEN [printed |-> <<>>, seen |-> seen_tickets]
    ELSE LET id == trim(Head(ids))
             fresh == id # <<>> /\ id \notin seen_tickets
             rest == find_and_output_tickets(
                        Tail(ids),
                        IF fresh THEN seen_tickets \cup {id} ELSE seen_tickets)
         IN  [printed |-> (IF fresh THEN <<id>> ELSE <<>>) \o rest.printed,
              seen |-> rest.seen]

InitExtract ==
    /\ \E src \in SourceLists :
         config = [mode |-> "ExtractTickets", release_tag |-> None,
                   linear_api_key |-> None, linear_org |-> None,
                   input_sources |-> src, dry_run |-> FALSE,
                   update_all_statuses |-> FALSE]
    /\ environ \in {[LINEAR_API_KEY |-> None, LINEAR_ORG |-> None]}
    /\ InitCommon

ExtractRunStart ==
    /\ config.mode = "ExtractTickets"
    /\ pc = "start"
    /\ pc' = "open"
    /\ log' = <<LogLine("reading PR numbers from input", <<>>)>>
    /\ UNCHANGED <<config, environ, argv, pipeVars, exit_code, tracker,
                   result, error, srcIdx, nLines, cur, calls, out, seen,
                   found, any_output, nErr, creds, orchVars>>

\* the ways the handling of one PR may fail: gh cannot be executed, gh exits
\* with a failure status (the PR cannot be fetched), jq fails, grep fails
PrFailures == {"gh_error", "pr_failed", "jq_error", "grep_error"}

\* the closure: a blank line is skipped; get_pr_text or grep failing leaves
\* the loop through `?`; otherwise the new ticket ids are printed.  calls
\* records how the lookup of the line ended.
\* The mutant logs a failed lookup and goes on with the next line.
ExtractOnLineSkippingFailures ==
    /\ config.mode = "ExtractTickets"
    /\ pc = "lines"
    /\ nLines < MaxLines
    /\ \E line \in PrLines :
         LET pr_num == trim(line)
         IN  /\ nLines' = nLines + 1
             /\ cur' = [NoCur EXCEPT !.line = line, !.id = pr_num]
             /\ IF pr_num = <<>>
                THEN /\ calls' = <<>>
                     /\ UNCHANGED <<pc, result, error, log, out, seen, found,
                                     any_output>>
                ELSE \E how \in PrFailures \cup {"ok"} :
                       /\ calls' = <<[op |-> "pr", arg |-> pr_num, resp |-> how]>>
                       /\ IF how # "ok"
                          THEN /\ log' = <<LogLine("processing PR", pr_num),
                                           LogLine(how, pr_num)>>
                               /\ UNCHANGED <<pc, result, error, out, seen,
                                               found, any_output>>
                          ELSE \E ids \in MatchLists :
                                 LET r == find_and_output_tickets(ids, seen)
                                 IN  /\ log' = <<LogLine("processing PR", pr_num)>>
                                     /\ found' = found \o ids
                                     /\ out' = out \o r.printed
                                     /\ seen' = r.seen
                                     /\ any_output' =
                                          (any_output \/ r.printed # <<>>)
                                     /\ UNCHANGED <<pc, result, error>>
    /\ UNCHANGED <<config, environ, argv, pipeVars, exit_code, tracker,
                   srcIdx, nErr, creds, orchVars>>

ExtractOnLine ==
    /\ config.mode = "ExtractTickets"
    /\ pc = "lines"
    /\ nLines < MaxLines
    /\ \E line \in PrLines :
         LET pr_num == trim(line)
         IN  /\ nLines' = nLines + 1
             /\ cur' = [NoCur EXCEPT !.line = line, !.id = pr_num]
             /\ IF pr_num = <<>>
                THEN /\ calls' = <<>>
                     /\ UNCHANGED <<pc, result, error, log, out, seen, found,
                                     any_output>>
                ELSE \E how \in PrFailures \cup {"ok"} :
                       /\ calls' = <<[op |-> "pr", arg |-> pr_num, resp |-> how]>>
                       /\ log' = <<LogLine("processing PR", pr_num)>>
                       /\ IF how # "ok"
                          THEN /\ Fail(how)
                               /\ UNCHANGED <<out, seen, found, any_output>>
                          ELSE \E ids \in MatchLists :
                                 LET r == find_and_output_tickets(ids, seen)
                                 IN  /\ found' = found \o ids
                                     /\ out' = out \o r.printed
                                     /\ seen' = r.seen
                                     /\ any_output' =
                                          (any_output \/ r.printed # <<>>)
                                     /\ UNCHANGED <<pc, result, error>>
    /\ UNCHANGED <<config, environ, argv, pipeVars, exit_code, tracker,
                   srcIdx, nErr, creds, orchVars>>

InitStages == InitNotes \/ InitExtract

NextStages ==
    \/ NotesStart
    \/ NotesOnMatch
    \/ NotesReadError
    \/ NotesGrepExit
    \/ NotesGhWait
    \/ ExtractRunStart
    \/ ExtractOnLine
    \/ ForEachOpen
    \/ ForEachReadError
    \/ ForEachEof
    \/ StageFinish
    \/ MainExit

SpecStages == InitStages /\ [][NextStages]_vars

(***************************************************************************)
(* The program in any of its four modes: main dispatches on config.mode.   *)
(***************************************************************************)
InitProgram == InitOrch \/ InitStages \/ InitUpdate

NextProgram ==
    \/ OrchValidate
    \/ OrchSpawnParse
    \/ OrchSpawnExtract
    \/ OrchSpawnUpdate
    \/ OrchWaitFirst
    \/ OrchWaitSecond
    \/ OrchWaitThird
    \/ OrchCheck
    \/ NotesStart
    \/ NotesOnMatch
    \/ NotesReadError
    \/ NotesGrepExit
    \/ NotesGhWait
    \/ ExtractRunStart
    \/ ExtractOnLine
    \/ UpdateRunStart
    \/ UpdateOnLine
    \/ UpdateFetchIssue
    \/ UpdateFetchStates
    \/ UpdateMutate
    \/ ForEachOpen
    \/ ForEachReadError
    \/ ForEachEof
    \/ StageFinish
    \/ MainExit

SpecProgram == InitProgram /\ [][NextProgram]_vars


(***************************************************************************)
(* The pipeline as it runs: orchestrator::run and the three stage          *)
(* processes it spawns, connected by two pipes.  children says what the    *)
(* parent did with a stage (spawned, waited), proc what the stage process  *)
(* itself is doing.  A stage reads one line (pc = "read"), handles it, and *)
(* prints what it found line by line (pc = "write") before it reads again; *)
(* pipe p carries the lines printed and not yet read.  A read finds a      *)
(* line, or blocks, or finds the end of input once the writer has exited;  *)
(* a write blocks while the pipe is full, and fails once the reader is     *)
(* gone: the Rust runtime ignores SIGPIPE, println! panics on the error    *)
(* and the process exits with a failure status.                            *)
(***************************************************************************)
\* what grep may find in the release notes of the pipeline
PipeNoteMatches == { <<"#","5">>, <<"#","7">>, PullUrl \o <<"5">> }
\* what grep may find in the text of one PR
PipeMatchLists == { <<>>, <<T1>>, <<T2, T1>> }
\* what update_single_ticket may return for a ticket
TicketOutcomes == {"Some", "None", "Err"}
\* the lines extract-tickets may print, and parse_issue_id of each
PipeTicketLines == UNION {{ids[i] : i \in 1..Len(ids)} : ids \in PipeMatchLists}
ParsedTicketLine == [line \in PipeTicketLines |-> parse_issue_id(trim(line))]

Producer(p) == IF p = 1 THEN "parse-notes" ELSE "extract-tickets"
Consumer(p) == IF p = 1 THEN "extract-tickets" ELSE "update-tickets"

\* the stage process exists and has not exited
Alive(s) == children[s].state # "none" /\ proc[s].pc # "done"

\* some process holds the write end of pipe p: the stage whose stdout it is
WriterOpen(p) == Alive(Producer(p))

\* some process holds the read end of pipe p: the parent from the spawn of
\* the producer until the statement that spawns the consumer has ended (the
\* Command it was moved into is a temporary), then the consumer.  The
\* mutant has the parent keep the read end for good.
ReaderOpenKeptByParent(p) == TRUE

ReaderOpen(p) ==
    \/ pc = (IF p = 1 THEN "spawn2" ELSE "spawn3")
    \/ Alive(Consumer(p))

InitPipeline ==
    /\ \E d \in BOOLEAN :
         config = [mode |-> "Orchestrator", release_tag |-> Some("v1.2.3"),
                   linear_api_key |-> Some("key-flag"), linear_org |-> None,
                   input_sources |-> <<>>, dry_run |-> d,
                   update_all_statuses |-> FALSE]
    /\ environ = [LINEAR_API_KEY |-> None, LINEAR_ORG |-> Some("org-env")]
    /\ InitCommon

\* the process of stage s exits
Exit(s, code) ==
    proc' = [proc EXCEPT ![s] = [pc |-> "done", todo |-> <<>>,
                                 seen |-> proc[s].seen, code |-> code]]

\* the stage goes on with the lines it has to print, or reads again.  With
\* the mutant a stage that reads stdin keeps the lines for later and reads on.
HandledReadingOn(s, lines, seen_after) ==
    proc' = [proc EXCEPT ![s] =
               [pc |-> IF s = "parse-notes" /\ lines # <<>> THEN "write" ELSE "read",
                todo |-> proc[s].todo \o lines, seen |-> seen_after,
                code |-> ""]]

Handled(s, lines, seen_after) ==
    proc' = [proc EXCEPT ![s] = [pc |-> IF lines = <<>> THEN "read" ELSE "write",
                                 todo |-> lines, seen |-> seen_after,
                                 code |-> ""]]

\* parse-notes: the reader loop of stream_pr_numbers_from_reader takes the
\* next match of grep, or finds the end and waits for grep and gh
PipeParseRead ==
    /\ Alive("parse-notes")
    /\ proc["parse-notes"].pc = "read"
    /\ \/ /\ Len(hist.got["parse-notes"]) < MaxMatches
          /\ \E matched \in PipeNoteMatches :
               LET num == pr_number(matched)
                   me == proc["parse-notes"]
               IN  /\ hist' = [hist EXCEPT !.got["parse-notes"] = Append(@, matched)]
                   /\ IF num \notin me.seen
                      THEN Handled("parse-notes", <<num>>, me.seen \cup {num})
                      ELSE Handled("parse-notes", <<>>, me.seen)
       \/ /\ \E code \in {"success", "failure"} : Exit("parse-notes", code)
          /\ UNCHANGED hist
    /\ UNCHANGED <<config, environ, argv, exit_code, tracker, pc, result,
                   error, stageVars, orchVars, pipe>>

\* extract-tickets: for_each_input_line hands the next line of stdin to the
\* closure: the PR is fetched (a failure leaves run through `?`) and the ids
\* not seen before are to be printed; at the end of input run returns Ok
PipeExtractRead ==
    /\ Alive("extract-tickets")
    /\ proc["extract-tickets"].pc = "read"
    /\ IF pipe[1] # <<>>
       THEN LET line == Head(pipe[1])
                me == proc["extract-tickets"]
            IN  /\ pipe' = [pipe EXCEPT ![1] = Tail(@)]
                /\ IF trim(line) = <<>>
                   THEN /\ Handled("extract-tickets", <<>>, me.seen)
                        /\ hist' = [hist EXCEPT
                                      !.got["extract-tickets"] = Append(@, line)]
                   ELSE \/ /\ Exit("extract-tickets", "failure")
                           /\ hist' = [hist EXCEPT
                                         !.got["extract-tickets"] = Append(@, line)]
                        \/ \E ids \in PipeMatchLists :
                             LET r == find_and_output_tickets(ids, me.seen)
                             IN  /\ Handled("extract-tickets", r.printed, r.seen)
                                 /\ hist' = [hist EXCEPT
                                        !.got["extract-tickets"] = Append(@, line),
                                        !.found = Append(@, [pr |-> trim(line),
                                                             ids |-> ids])]
       ELSE /\ ~WriterOpen(1)
            /\ Exit("extract-tickets", "success")
            /\ UNCHANGED <<pipe, hist>>
    /\ UNCHANGED <<config, environ, argv, exit_code, tracker, pc, result,
                   error, stageVars, orchVars>>

\* update-tickets: the next line of stdin is parsed and processed; an invalid
\* line and a failed ticket are logged, a URL is to be printed for Some; at
\* the end of input run returns Ok; reading may fail at any line, which
\* leaves run with an error
PipeUpdateRead ==
    /\ Alive("update-tickets")
    /\ proc["update-tickets"].pc = "read"
    /\ \/ /\ pipe[2] # <<>>
          /\ LET line == Head(pipe[2])
                 me == proc["update-tickets"]
                 parsed == ParsedTicketLine[line]
             IN  /\ pipe' = [pipe EXCEPT ![2] = Tail(@)]
                 /\ IF trim(line) = <<>> \/ ~parsed.ok
                    THEN /\ Handled("update-tickets", <<>>, me.seen)
                         /\ hist' = [hist EXCEPT
                                       !.got["update-tickets"] = Append(@, line)]
                    ELSE \E res \in TicketOutcomes :
                           LET url == issue_url(creds.org, parsed.id)
                           IN  IF res = "Some"
                               THEN /\ Handled("update-tickets", <<url>>, me.seen)
                                    /\ hist' = [hist EXCEPT
                                          !.got["update-tickets"] = Append(@, line),
                                          !.due = Append(@, url)]
                               ELSE /\ Handled("update-tickets", <<>>, me.seen)
                                    /\ hist' = [hist EXCEPT
                                          !.got["update-tickets"] = Append(@, line)]
       \/ /\ pipe[2] = <<>>
          /\ ~WriterOpen(2)
          /\ Exit("update-tickets", "success")
          /\ UNCHANGED <<pipe, hist>>
       \/ /\ Exit("update-tickets", "failure")
          /\ UNCHANGED <<pipe, hist>>
    /\ UNCHANGED <<config, environ, argv, exit_code, tracker, pc, result,
                   error, stageVars, orchVars>>

\* println! of the next line into pipe p
PipeWrite(s, p) ==
    /\ Alive(s)
    /\ proc[s].pc = "write"
    /\ IF ~ReaderOpen(p)
       THEN Exit(s, "failure") /\ UNCHANGED <<pipe, hist>>
       ELSE /\ Len(pipe[p]) < PipeCap
            /\ pipe' = [pipe EXCEPT ![p] = println(@, Head(proc[s].todo))]
            /\ hist' = [hist EXCEPT !.sent[s] = Append(@, Head(proc[s].todo))]
            /\ Handled(s, Tail(proc[s].todo), proc[s].seen)
    /\ UNCHANGED <<config, environ, argv, exit_code, tracker, pc, result,
                   error, stageVars, orchVars>>

PipeParseWrite ==
    /\ proc["parse-notes"].pc = "write"
    /\ PipeWrite("parse-notes", 1)

PipeExtractWrite ==
    /\ proc["extract-tickets"].pc = "write"
    /\ PipeWrite("extract-tickets", 2)

\* update-tickets prints on the stdout it inherits from the orchestrator
PipeUpdateWrite ==
    /\ Alive("update-tickets")
    /\ proc["update-tickets"].pc = "write"
    /\ hist' = [hist EXCEPT !.sent["update-tickets"] =
                               println(@, Head(proc["update-tickets"].todo))]
    /\ Handled("update-tickets", Tail(proc["update-tickets"].todo),
               proc["update-tickets"].seen)
    /\ UNCHANGED <<config, environ, argv, exit_code, tracker, pc, result,
                   error, stageVars, orchVars, pipe>>

\* the k-th wait call returns once the stage has exited, with its status.
\* The mutant gives up at the first stage found to have failed.
PipeWaitFailFast(k, nextpc) ==
    LET s == WaitOrder[k]
    IN  /\ proc[s].pc = "done"
        /\ waits' = Append(waits, [stage |-> s, outcome |-> proc[s].code])
        /\ children' = [children EXCEPT ![s].state = "waited"]
        /\ status' = [status EXCEPT ![s] = proc[s].code]
        /\ IF proc[s].code = "failure" THEN Fail("Pipeline failed")
           ELSE pc' = nextpc /\ UNCHANGED <<result, error>>
        /\ UNCHANGED <<config, environ, argv, pipeVars, exit_code, tracker,
                       stageVars>>

PipeWait(k, nextpc) ==
    LET s == WaitOrder[k]
    IN  /\ proc[s].pc = "done"
        /\ waits' = Append(waits, [stage |-> s, outcome |-> proc[s].code])
        /\ children' = [children EXCEPT ![s].state = "waited"]
        /\ status' = [status EXCEPT ![s] = proc[s].code]
        /\ pc' = nextpc
        /\ UNCHANGED <<config, environ, argv, pipeVars, exit_code, tracker,
                       result, error, stageVars>>

PipeWaitFirst == pc = "wait1" /\ PipeWait(1, "wait2")

PipeWaitSecond == pc = "wait2" /\ PipeWait(2, "wait3")

PipeWaitThird == pc = "wait3" /\ PipeWait(3, "check")

NextPipeline ==
    \/ OrchValidate
    \/ OrchSpawnParse
    \/ OrchSpawnExtract
    \/ OrchSpawnUpdate
    \/ PipeParseRead
    \/ PipeParseWrite
    \/ PipeExtractRead
    \/ PipeExtractWrite
    \/ PipeUpdateRead
    \/ PipeUpdateWrite
    \/ PipeWaitFirst
    \/ PipeWaitSecond
    \/ PipeWaitThird
    \/ OrchCheck
    \/ MainExit

SpecPipeline == InitPipeline /\ [][NextPipeline]_vars

\* the processes are scheduled: while some process can take a step, some
\* step is taken.  No process of the pipeline loops without reading or
\* writing, so this is the weakest scheduling assumption there is.
SpecPipelineFair == SpecPipeline /\ WF_vars(NextPipeline)




(***************************************************************************)
(* The claims about the orchestrator (checked under SpecOrch).             *)
(***************************************************************************)
AllWaited == \A s \in Stages : children[s].state = "waited"
AllSucceeded == \A s \in Stages : status[s] = "success"

\* C1: once all three stages were spawned and waited on, run returns Ok
\* exactly when the three exit statuses are all successes, and otherwise the
\* error "Pipeline failed", also when only the last stage succeeded.
C1_SuccessIffAllStagesSucceeded ==
    (pc = "exit" /\ AllWaited) =>
        /\ (result = "Ok") <=> AllSucceeded
        /\ ~AllSucceeded => (result = "Err" /\ error = "Pipeline failed")

C1_Witness ==
    /\ pc = "exit"
    /\ AllWaited
    /\ status["update-tickets"] = "success"
    /\ status["extract-tickets"] = "failure"
    /\ status["parse-notes"] = "failure"
    /\ result = "Err"
    /\ error = "Pipeline failed"

\* C9: when run has returned, no stage process that was spawned is left
\* without having been waited on.
C9_EverySpawnedStageWaited ==
    pc = "exit" => \A s \in Stages : children[s].state # "running"

\* C10: the wait calls are made in reverse spawn order (update-tickets, then
\* extract-tickets, then parse-notes), each one only after the one before it
\* has returned a status, and none before all three stages are spawned.
C10_WaitsInReverseSpawnOrder ==
    /\ Len(waits) <= 3
    /\ \A i \in 1..Len(waits) :
         /\ waits[i].stage = <<"update-tickets", "extract-tickets", "parse-notes">>[i]
         /\ i > 1 => waits[i - 1].outcome \in {"success", "failure"}
    /\ waits # <<>> => \A s \in Stages : children[s].state # "none"

C10_Witness ==
    /\ Len(waits) = 3
    /\ waits[3].stage = "parse-notes"
    /\ waits[3].outcome = "failure"

\* the release tag, the API key or the organisation is given neither by a
\* flag nor (for the credentials) by the environment
Unresolvable ==
    \/ config.release_tag = <<>>
    \/ (config.linear_api_key = <<>> /\ environ.LINEAR_API_KEY = <<>>)
    \/ (config.linear_org = <<>> /\ environ.LINEAR_ORG = <<>>)

ConfigurationErrors ==
    {"Orchestrator mode requires --release-tag flag",
     "LINEAR_API_KEY not provided", "LINEAR_ORG not provided"}

\* C11: when the release tag, the API key or the organisation cannot be
\* resolved, run never gets to a spawn: no stage process exists, no wait is
\* made, and when run has returned it has returned a configuration error.
C11_UnresolvableConfigFailsBeforeSpawn ==
    (config.mode = "Orchestrator" /\ Unresolvable) =>
        /\ pc \in {"start", "exit"}
        /\ \A s \in Stages : children[s] = [state |-> "none", stdin |-> "",
                                              args |-> <<>>]
        /\ waits = <<>>
        /\ pc = "exit" => (result = "Err" /\ error \in ConfigurationErrors)

C11_Witness ==
    /\ config.mode = "Orchestrator"
    /\ config.release_tag # <<>>
    /\ config.linear_api_key # <<>>
    /\ config.linear_org = <<>>
    /\ environ.LINEAR_ORG = <<>>
    /\ pc = "exit"
    /\ result = "Err"
    /\ error = "LINEAR_ORG not provided"

\* the stages in the order the pipeline connects them
SpawnOrder == <<"parse-notes", "extract-tickets", "update-tickets">>
Spawned(k) == children[SpawnOrder[k]].state # "none"
SpawnFailures ==
    <<"Failed to spawn parse-notes", "Failed to spawn extract-tickets",
      "Failed to spawn update-tickets">>
CaptureFailures ==
    <<"Failed to capture parse-notes stdout",
      "Failed to capture extract-tickets stdout">>

\* C27: the stages are spawned in the order 1, 2, 3, each with its input
\* bound to the captured output of the stage before it; when spawning stage
\* k or capturing its output fails, run returns an error and no later stage
\* is ever spawned.
C27_SpawnOrderAndBinding ==
    /\ \A k \in 2..3 : Spawned(k) =>
          /\ Spawned(k - 1)
          /\ children[SpawnOrder[k]].stdin = SpawnOrder[k - 1]
    /\ Spawned(1) => children[SpawnOrder[1]].stdin = "inherit"
    /\ \A k \in 1..3 : error = SpawnFailures[k] =>
          /\ pc = "exit"
          /\ result = "Err"
          /\ \A j \in k..3 : ~Spawned(j)
    /\ \A k \in 1..2 : error = CaptureFailures[k] =>
          /\ pc = "exit"
          /\ result = "Err"
          /\ \A j \in (k + 1)..3 : ~Spawned(j)

\* parse-notes runs, extract-tickets could not be spawned, main has exited
C27_Witness ==
    /\ error = "Failed to spawn extract-tickets"
    /\ Spawned(1)
    /\ ~Spawned(3)
    /\ exit_code = <<1>>


\* run has resolved the API key to v: it has not failed on the key, and the
\* credentials it hands to the stages hold v
KeyResolvedTo(v) ==
    /\ error # "LINEAR_API_KEY not provided"
    /\ creds # NoCreds => creds.api_key = v
\* run has resolved the organisation to v
OrgResolvedTo(v) ==
    /\ error # "LINEAR_ORG not provided"
    /\ creds # NoCreds => creds.org = v

\* C23: each credential resolves to the flag's value when the flag is given,
\* whatever the environment holds; to the environment's value when only
\* that is set; and to a configuration error naming the credential when
\* neither is set (the organisation is resolved once the key has been).
C23_CredentialPrecedence ==
    (config.mode = "Orchestrator" /\ config.release_tag # <<>> /\ pc # "start") =>
        /\ config.linear_api_key # <<>> => KeyResolvedTo(config.linear_api_key[1])
        /\ (config.linear_api_key = <<>> /\ environ.LINEAR_API_KEY # <<>>) =>
              KeyResolvedTo(environ.LINEAR_API_KEY[1])
        /\ (config.linear_api_key = <<>> /\ environ.LINEAR_API_KEY = <<>>) =>
              /\ result = "Err"
              /\ error = "LINEAR_API_KEY not provided"
              /\ creds = NoCreds
        /\ (config.linear_api_key # <<>> \/ environ.LINEAR_API_KEY # <<>>) =>
              /\ config.linear_org # <<>> => OrgResolvedTo(config.linear_org[1])
              /\ (config.linear_org = <<>> /\ environ.LINEAR_ORG # <<>>) =>
                    OrgResolvedTo(environ.LINEAR_ORG[1])
              /\ (config.linear_org = <<>> /\ environ.LINEAR_ORG = <<>>) =>
                    /\ result = "Err"
                    /\ error = "LINEAR_ORG not provided"
                    /\ creds = NoCreds

\* the key given by flag and by environment, the organisation by the
\* environment only
C23_Witness ==
    /\ config.mode = "Orchestrator"
    /\ config.linear_api_key = <<"key-flag">>
    /\ environ.LINEAR_API_KEY = <<"key-env">>
    /\ config.linear_org = <<>>
    /\ environ.LINEAR_ORG = <<"org-env">>
    /\ creds = [api_key |-> "key-flag", org |-> "org-env"]
    /\ children["update-tickets"].state # "none"



\* the errors of a file that cannot be opened
OpenErrors == {"Failed to open file a.txt", "Failed to open file b.txt"}

(***************************************************************************)
(* The claims about update-tickets (checked under SpecUpdate).  They are   *)
(* stated on the raw responses recorded in calls and on the state names    *)
(* listed here, not on the model's own classification.                     *)
(***************************************************************************)
\* the state names of the model that contain "Done" or "Completed"
CompletedNames == {Done, NotCompleted}
\* the state names of the model that are "Passing" in some letter case
PassingNames == {Passing, PASSING_uc}

ShouldUpdateByName(state_name, update_all_statuses) ==
    /\ state_name \notin CompletedNames
    /\ (update_all_statuses \/ state_name \in PassingNames)

HasCall(op) == \E i \in 1..Len(calls) : calls[i].op = op
Returned == cur.res \in {"Some", "None", "Err"}
CurUrl == <<"https://linear.app/", creds.org, "/issue/", cur.id>>

\* the error lists of the model in which no entry carries a message
MessagelessErrors == {<<>>, <<"null">>, <<"">>}

\* the issue fetch of the current ticket came back with an issue in it
FetchSucceeded ==
    /\ Len(calls) >= 1
    /\ calls[1].op = "issue"
    /\ calls[1].resp.transport
    /\ calls[1].resp.errors \in MessagelessErrors
    /\ ~calls[1].resp.issue.null
FetchedState == calls[1].resp.issue.state

\* C2: in dry-run mode neither the team workflow-states lookup nor the
\* mutation is ever called; the one remote call per ticket is the issue fetch.
C2_DryRunOnlyFetches ==
    config.dry_run =>
        /\ pc \notin {"states", "update"}
        /\ Len(calls) <= 1
        /\ \A i \in 1..Len(calls) : calls[i].op = "issue"

C2_Witness ==
    /\ config.dry_run
    /\ config.update_all_statuses
    /\ FetchSucceeded
    /\ FetchedState = InReview
    /\ calls[1].resp.issue.team = "team-1"
    /\ cur.res = "Some"

\* C3: when update_single_ticket fails for a ticket, whatever the failure, the
\* failure is logged with the ticket's URL, nothing is printed, and the loop
\* goes on reading at the same source; the stage never returns an error that
\* comes from a ticket, so it ends with Ok unless reading the input fails.
C3_TicketFailureIsIsolated ==
    /\ [][(cur.res = "pending" /\ cur'.res = "Err") =>
            /\ pc' = "lines"
            /\ result' = "running"
            /\ srcIdx' = srcIdx
            /\ out' = out
            /\ \E i \in 1..Len(log') :
                 log'[i] = [msg |-> "Failed to update", about |-> CurUrl]
            /\ log'[Len(log')] = [msg |-> "", about |-> CurUrl]]_vars
    /\ [](result = "Err" =>
            error \in OpenErrors \cup
                      {"Failed to read",
                       "LINEAR_API_KEY not provided", "LINEAR_ORG not provided"})

C3_Witness ==
    /\ result = "Ok"
    /\ nErr = 1
    /\ nLines = 2
    /\ cur.res = "Some"
    /\ Len(out) = 1

\* C4: in live mode the mutation is attempted only for a ticket whose fetched
\* state is not completed and is Passing (any letter case) or overridden by
\* updateAllStatuses; and a ticket in such a state has the mutation attempted
\* unless the team id is missing or the completed-state lookup fails.
C4_LiveMutationGate ==
    ~config.dry_run =>
        /\ (pc = "update" \/ HasCall("update")) =>
              /\ FetchSucceeded
              /\ ShouldUpdateByName(FetchedState, config.update_all_statuses)
        /\ (Returned /\ FetchSucceeded
            /\ ShouldUpdateByName(FetchedState, config.update_all_statuses)) =>
              \/ HasCall("update")
              \/ /\ cur.res = "Err"
                 /\ calls[1].resp.issue.team \in {"null", ""}
                 /\ Len(calls) = 1
              \/ /\ cur.res = "Err"
                 /\ Len(calls) = 2
                 /\ calls[2].op = "states"
                 /\ \/ ~calls[2].resp.transport
                    \/ calls[2].resp.errors \notin MessagelessErrors
                    \/ \A i \in 1..Len(calls[2].resp.nodes) :
                         calls[2].resp.nodes[i].name \notin {Done, Completed,
                                                            Abandoned, completed_lc}

C4_Witness ==
    /\ ~config.dry_run
    /\ ~config.update_all_statuses
    /\ FetchSucceeded
    /\ FetchedState = PASSING_uc
    /\ HasCall("update")
    /\ cur.res = "Some"

\* C5: in live mode a ticket whose fetched state name contains "Done" or
\* "Completed" has its URL printed, with no workflow-states lookup and no
\* mutation, whatever updateAllStatuses is.
C5_LiveCompletedEmitsWithoutCalls ==
    (~config.dry_run /\ FetchSucceeded /\ FetchedState \in CompletedNames) =>
        /\ cur.res = "Some"
        /\ Len(calls) = 1
        /\ pc \notin {"states", "update"}
        /\ out # <<>>
        /\ out[Len(out)] = CurUrl

C5_Witness ==
    /\ ~config.dry_run
    /\ config.update_all_statuses
    /\ FetchSucceeded
    /\ FetchedState = NotCompleted
    /\ cur.res = "Some"

\* C6: in dry-run mode a step prints a line exactly when it ends the handling
\* of a ticket whose fetch succeeded and whose state has shouldUpdate; the
\* line is the ticket's URL; completed and non-qualifying tickets print
\* nothing.
C6_DryRunOutputIffShouldUpdate ==
    [][config.dry_run =>
         IF /\ cur.res = "pending"
            /\ cur'.res # "pending"
            /\ Len(calls') = 1
            /\ calls'[1].resp.transport
            /\ calls'[1].resp.errors \in MessagelessErrors
            /\ ~calls'[1].resp.issue.null
            /\ ShouldUpdateByName(calls'[1].resp.issue.state,
                                  config.update_all_statuses)
         THEN out' = Append(out, CurUrl)
         ELSE out' = out]_vars

C6_Witness ==
    /\ config.dry_run
    /\ config.update_all_statuses
    /\ nLines = 2
    /\ FetchSucceeded
    /\ FetchedState = Done
    /\ cur.res = "None"
    /\ Len(out) = 1


\* C13: a response that arrived and carries a non-empty error list is the
\* last call made for its ticket, and the ticket has failed: nothing is
\* printed for it and no lookup or mutation follows.
C13_ErrorListFailsTheTicket ==
    \A i \in 1..Len(calls) :
       (calls[i].resp.transport /\ calls[i].resp.errors # <<>>) =>
          /\ i = Len(calls)
          /\ pc \notin {"states", "update"}
          /\ cur.res = "Err"


\* the texts of the model that match ^[A-Z]{3}-[0-9]+$
PatternIds == {<<"A","B","C","-","1">>, <<"X","Y","Z","-","2","2">>}
\* the lines of the model that are not blank and do not match the pattern
\* once trimmed
NonMatchingLines ==
    { <<"a","b","c","-","1">>, <<"A","B","-","1">>, <<"A","B","C","-">>,
      <<"A","B","C","-","1","-","2">> }

\* C14: update_single_ticket is only ever at work on a value that matches
\* ^[A-Z]{3}-[0-9]+$; a line that does not match is logged as invalid input
\* and skipped: no remote call is made for it, and reading goes on (the stage
\* does not fail because of it).
C14_OnlyPatternIdsReachTheEngine ==
    /\ (pc \in {"issue", "states", "update"} \/ calls # <<>>) =>
          cur.id \in PatternIds
    /\ cur.line \in NonMatchingLines =>
          /\ cur.res = "Invalid"
          /\ calls = <<>>
          /\ pc \in {"lines", "open", "finish", "exit"}
          /\ out = <<>> \/ out[Len(out)][4] \in PatternIds
          /\ result = "Err" => error \in OpenErrors \cup {"Failed to read"}
          /\ pc = "lines" =>
                log = << [msg |-> "Invalid input", about |-> cur.line],
                         [msg |-> "", about |-> cur.line] >>

C14_Witness ==
    /\ cur.line = <<"A","B","C","-","1","-","2">>
    /\ cur.res = "Invalid"
    /\ nLines = 2
    /\ nErr = 1
    /\ pc = "lines"
    /\ result = "running"


\* the last call recorded is a mutation the tracker reported as done
MutatedSuccessfully(cs) ==
    /\ cs # <<>>
    /\ cs[Len(cs)].op = "update"
    /\ cs[Len(cs)].resp.transport
    /\ cs[Len(cs)].resp.success = "true"
    /\ cs[Len(cs)].resp.errors \in MessagelessErrors

\* C16: the only thing a step ever does to stdout is to append the URL of the
\* ticket it has just finished, and only when that ticket was mutated
\* successfully, or was found completed in live mode, or would be updated in
\* dry-run mode; a step that ends a ticket in failure or rejects a line leaves
\* stdout alone and writes the URL or the line to stderr.
C16_StdoutHoldsOnlySuccesses ==
    [][/\ out' # out =>
            /\ out' = Append(out, <<"https://linear.app/", creds.org,
                                    "/issue/", cur'.id>>)
            /\ cur.res = "pending"
            /\ cur'.res = "Some"
            /\ calls'[1].resp.transport
            /\ ~calls'[1].resp.issue.null
            /\ IF config.dry_run
               THEN ShouldUpdateByName(calls'[1].resp.issue.state,
                                       config.update_all_statuses)
               ELSE \/ MutatedSuccessfully(calls')
                    \/ /\ Len(calls') = 1
                       /\ calls'[1].resp.issue.state \in CompletedNames
       /\ (cur'.res \in {"Err", "Invalid"} /\ cur' # cur) =>
            /\ out' = out
            /\ log' # <<>>
            /\ log'[Len(log')].msg = ""
            /\ log'[Len(log')].about =
                  (IF cur'.res = "Err"
                   THEN <<"https://linear.app/", creds.org, "/issue/", cur'.id>>
                   ELSE cur'.line)]_vars

C16_Witness ==
    /\ cur.res = "Err"
    /\ cur.id = <<"X","Y","Z","-","2","2">>
    /\ nLines = 2
    /\ out = << <<"https://linear.app/", creds.org, "/issue/",
                  <<"A","B","C","-","1">> >> >>
    /\ log[Len(log)] = [msg |-> "", about |-> CurUrl]


\* the ticket being handled was moved by a successful mutation while an
\* earlier line was handled, and its fetch now shows the state it was moved to
ProcessedAgainAfterMove ==
    /\ cur.id \in {<<"A","B","C","-","1">>, <<"X","Y","Z","-","2","2">>}
    /\ tracker[cur.id] # <<>>
    /\ FetchSucceeded
    /\ FetchedState = tracker[cur.id]

\* C17 as stated: in live mode, when a ticket that a successful mutation has
\* moved to the resolved completed state is processed again, no mutation is
\* issued for it, whatever the team workflow and updateAllStatuses.
C17_SecondPassIssuesNoMutation ==
    (~config.dry_run /\ ProcessedAgainAfterMove) => ~HasCall("update")

\* C17 amended: the second pass issues no mutation when the name of the state
\* the ticket was moved to contains "Done" or "Completed" in this letter case
\* (the URL is printed after the fetch alone), or when updateAllStatuses is
\* off (nothing is printed and nothing is called after the fetch).
C17_SecondPassWhenRecognised ==
    (~config.dry_run /\ ProcessedAgainAfterMove) =>
        /\ tracker[cur.id] \in CompletedNames =>
              /\ cur.res = "Some"
              /\ Len(calls) = 1
              /\ pc \notin {"states", "update"}
        /\ (tracker[cur.id] \notin CompletedNames
            /\ ~config.update_all_statuses) =>
              /\ cur.res = "None"
              /\ Len(calls) = 1
              /\ pc \notin {"states", "update"}

C17_Witness ==
    /\ ~config.dry_run
    /\ config.update_all_statuses
    /\ ProcessedAgainAfterMove
    /\ tracker[cur.id] = <<"D","o","n","e">>
    /\ cur.res = "Some"
    /\ Len(out) = 2


\* C18: update-tickets never prints the same URL twice in one invocation,
\* however often a ticket id appears in its input.
C18_UpdaterPrintsEachUrlOnce ==
    \A i, j \in 1..Len(out) : i # j => out[i] # out[j]


\* the id of the first node of each workflow of the model whose name holds
\* "completed" or "done" in some letter case ("" when there is none)
FirstCompletedNodeId(nodes) ==
    CASE nodes = <<Node("s-todo", Todo), Node("s-done", Done),
                   Node("s-compl", Completed)>> -> "s-done"
      [] nodes = <<Node("s-aband", Abandoned), Node("s-lc", completed_lc)>>
           -> "s-aband"
      [] nodes = <<Node("s-todo", Todo), Node("s-done", Done)>> -> "s-done"
      [] OTHER -> ""

\* the workflow-states lookup of the current ticket came back with a list
StatesSucceeded ==
    /\ Len(calls) >= 2
    /\ calls[2].op = "states"
    /\ calls[2].resp.transport
    /\ calls[2].resp.errors \in MessagelessErrors

\* C28: in live mode the state id sent in the mutation is the id of the
\* first node, in listed order, whose name matches "completed" or "done"
\* whatever the letter case; when no node matches, the ticket fails with
\* "Could not find a 'Completed' or 'Done' state" and no mutation is called.
C28_MutationTargetsFirstCompletedNode ==
    ~config.dry_run =>
        /\ \A i \in 1..Len(calls) :
              calls[i].op = "update" =>
                 /\ i = 3
                 /\ StatesSucceeded
                 /\ calls[i].arg # ""
                 /\ calls[i].arg = FirstCompletedNodeId(calls[2].resp.nodes)
        /\ (StatesSucceeded /\ FirstCompletedNodeId(calls[2].resp.nodes) = "") =>
              /\ Len(calls) = 2
              /\ pc # "update"
              /\ cur.res = "Err"
              /\ cur.err = "Could not find a 'Completed' or 'Done' state"

\* a mutation sent to the second workflow, whose first match is "Abandoned"
C28_Witness ==
    /\ ~config.dry_run
    /\ Len(calls) = 3
    /\ calls[3].op = "update"
    /\ calls[3].arg = "s-aband"
    /\ calls[2].resp.nodes[2].name = completed_lc
    /\ cur.res = "Some"

\* C29: when the mutation response has success false, or no success value,
\* the ticket fails with "Update failed" and its URL is not printed; when it
\* has success true and no error message, the URL is printed.
C29_MutationSuccessDecidesTheUrl ==
    [][pc = "update" =>
         LET r == calls'[Len(calls')].resp
         IN  /\ calls'[Len(calls')].op = "update"
             /\ (r.transport /\ r.success \in {"false", "null"}) =>
                   /\ cur'.res = "Err"
                   /\ cur'.err = "Update failed"
                   /\ out' = out
             /\ (r.transport /\ r.success = "true"
                 /\ r.errors \in MessagelessErrors) =>
                   /\ cur'.res = "Some"
                   /\ out' = Append(out, CurUrl)]_vars

\* a ticket whose mutation came back with success false, after one that was
\* moved and printed
C29_Witness ==
    /\ ~config.dry_run
    /\ Len(calls) = 3
    /\ calls[3].op = "update"
    /\ calls[3].resp.transport
    /\ calls[3].resp.success = "false"
    /\ cur.res = "Err"
    /\ cur.err = "Update failed"
    /\ Len(out) = 1
    /\ nLines = 2

\* C30: in live mode a ticket that is not completed and does not qualify
\* (a state other than Passing without updateAllStatuses) produces no
\* output line and no remote call other than the issue fetch.
C30_UnqualifiedTicketIsLeftAlone ==
    [][(/\ ~config.dry_run
        /\ ~config.update_all_statuses
        /\ pc = "issue"
        /\ calls'[1].resp.transport
        /\ calls'[1].resp.errors \in MessagelessErrors
        /\ ~calls'[1].resp.issue.null
        /\ calls'[1].resp.issue.state \notin CompletedNames \cup PassingNames)
       => /\ cur'.res = "None"
          /\ pc' = "lines"
          /\ Len(calls') = 1
          /\ out' = out
          /\ any_output' = any_output]_vars

\* a ticket in review, left alone, after one that was printed
C30_Witness ==
    /\ ~config.dry_run
    /\ ~config.update_all_statuses
    /\ FetchSucceeded
    /\ FetchedState = InReview
    /\ cur.res = "None"
    /\ Len(calls) = 1
    /\ Len(out) = 1
    /\ nLines = 2


\* C31 as stated: whenever the fetch comes back with a null issue, in dry-run
\* and in live mode, the ticket fails with "Issue not found", nothing is
\* printed for it and no further call is made.
C31_NullIssueIsNotFound ==
    [][(pc = "issue" /\ calls'[1].resp.transport /\ calls'[1].resp.issue.null)
       => /\ cur'.res = "Err"
          /\ cur'.err = "Issue not found"
          /\ Len(calls') = 1
          /\ pc' = "lines"
          /\ out' = out]_vars

\* C31 amended: a null issue fails the ticket in both modes before any
\* classification, nothing is printed and no further call is made; the
\* error is "Issue not found" when the response carries no error message,
\* and the error-list failure when it carries one.
C31_NullIssueFailsTheTicket ==
    [][(pc = "issue" /\ calls'[1].resp.transport /\ calls'[1].resp.issue.null)
       => /\ cur'.res = "Err"
          /\ cur'.err = IF calls'[1].resp.errors \in MessagelessErrors
                        THEN "Issue not found"
                        ELSE "Linear API returned errors"
          /\ Len(calls') = 1
          /\ pc' = "lines"
          /\ out' = out]_vars

\* a dry run: a ticket printed, then one the remote does not know
C31_Witness ==
    /\ config.dry_run
    /\ Len(calls) = 1
    /\ calls[1].resp.transport
    /\ calls[1].resp.issue.null
    /\ calls[1].resp.errors = <<>>
    /\ cur.res = "Err"
    /\ cur.err = "Issue not found"
    /\ Len(out) = 1
    /\ nLines = 2


\* the remote calls of one ticket, in the order the engine makes them
CallOrder == <<"issue", "states", "update">>

\* C32: for each input line update-tickets makes at most one issue fetch, one
\* workflow-states lookup and one mutation, in this order: a lookup only
\* after a fetch that succeeded, a mutation only after a lookup that
\* succeeded and found a state; a call that failed is never made again.
C32_CallsOncePerLineInOrder ==
    /\ Len(calls) <= 3
    /\ \A i \in 1..Len(calls) : calls[i].op = CallOrder[i]
    /\ Len(calls) >= 2 => FetchSucceeded
    /\ Len(calls) >= 3 =>
          /\ StatesSucceeded
          /\ FirstCompletedNodeId(calls[2].resp.nodes) # ""
    /\ \A i \in 1..Len(calls) :
          ~calls[i].resp.transport => (i = Len(calls) /\ cur.res = "Err")
    /\ cur.res \in {"Blank", "Invalid"} => calls = <<>>

\* the three calls made for the second ticket, the mutation refused
C32_Witness ==
    /\ Len(calls) = 3
    /\ calls[3].op = "update"
    /\ ~calls[3].resp.transport
    /\ cur.res = "Err"
    /\ nLines = 2
    /\ nErr = 2


(***************************************************************************)
(* The claims about parse-notes and extract-tickets (checked under         *)
(* SpecStages).  found holds what was discovered, as read: grep's matches  *)
(* for parse-notes, the ticket ids grep found for extract-tickets.         *)
(***************************************************************************)
\* the PR number each match of the model refers to
NumberOfMatch(m) ==
    CASE m = <<"#","5">> -> <<"5">>
      [] m = <<"#","7">> -> <<"7">>
      [] m = <<"#","1","2">> -> <<"1","2">>
      [] m = PullUrl \o <<"5">> -> <<"5">>
      [] m = PullUrl \o <<"1","2">> -> <<"1","2">>

\* the identifiers discovered so far, in discovery order
Discovered ==
    IF config.mode = "ParseNotes"
    THEN [i \in 1..Len(found) |-> NumberOfMatch(found[i])]
    ELSE found

\* the first occurrences of s, in order
FirstOccurrences(s) ==
    LET keep == {i \in 1..Len(s) : \A j \in 1..(i - 1) : s[j] # s[i]}
        RECURSIVE pick(_)
        pick(i) == IF i > Len(s) THEN <<>>
                   ELSE (IF i \in keep THEN <<s[i]>> ELSE <<>>) \o pick(i + 1)
    IN  pick(1)

\* C7: the output of parse-notes and of extract-tickets never holds the same
\* identifier twice and holds every identifier discovered so far.
C7_EachIdentifierPrintedOnce ==
    /\ \A i, j \in 1..Len(out) : i # j => out[i] # out[j]
    /\ {out[i] : i \in 1..Len(out)} = {Discovered[i] : i \in 1..Len(Discovered)}

C7_Witness ==
    /\ config.mode = "ExtractTickets"
    /\ srcIdx = 2
    /\ nLines = 2
    /\ found = <<T2, T1, T1, T3, T1>>
    /\ out = <<T2, T1, T3>>

\* C8: the output is the sequence of first occurrences of the discovered
\* identifiers, in discovery order; matches '#5', '#7', '#5' print 5 then 7.
C8_OutputInDiscoveryOrder == out = FirstOccurrences(Discovered)

C8_Witness ==
    /\ config.mode = "ParseNotes"
    /\ found = << <<"#","5">>, <<"#","7">>, <<"#","5">> >>
    /\ out = << <<"5">>, <<"7">> >>


\* C20: in extract-tickets, when the PR of a line cannot be fetched (gh exits
\* with a failure status), the line is skipped and the loop goes on: the
\* stage does not return an error because of it.
C20_PrFetchFailureIsSkipped ==
    (config.mode = "ExtractTickets" /\ calls # <<>>
     /\ calls[1].resp = "pr_failed") => result # "Err"


(***************************************************************************)
(* The claims about the program as a whole (checked under SpecProgram).    *)
(***************************************************************************)
Exited == exit_code # <<>>

\* C12: a parse-notes process whose gh child exits with a failure status
\* returns an error and exits with code 1; an extract-tickets or
\* update-tickets process that read no line and returned Ok exits with code
\* 0; and an orchestrator that collected a failure status from parse-notes
\* and success from the other two returns "Pipeline failed" and exits with
\* code 1.
C12_FetchFailureFailsThePipeline ==
    /\ (config.mode = "ParseNotes" /\ waits # <<>>
        /\ waits[Len(waits)].outcome = "failure") =>
           /\ pc = "exit"
           /\ result = "Err"
           /\ Exited => exit_code = <<1>>
    /\ (config.mode \in {"ExtractTickets", "UpdateTickets"} /\ Exited
        /\ nLines = 0 /\ result = "Ok") => exit_code = <<0>>
    /\ (config.mode = "Orchestrator" /\ pc = "exit"
        /\ status["parse-notes"] = "failure"
        /\ status["extract-tickets"] = "success"
        /\ status["update-tickets"] = "success") =>
           /\ result = "Err"
           /\ error = "Pipeline failed"
           /\ Exited => exit_code = <<1>>

C12_Witness ==
    /\ config.mode = "Orchestrator"
    /\ status["parse-notes"] = "failure"
    /\ status["extract-tickets"] = "success"
    /\ status["update-tickets"] = "success"
    /\ error = "Pipeline failed"
    /\ exit_code = <<1>>

\* C19 as stated: in every stage a failure of a line that comes from the
\* infrastructure stops the stage with an error.  For extract-tickets: gh,
\* jq or grep could not be run; for update-tickets: a remote call did not get
\* through.
C19_InfrastructureFailureIsFatal ==
    /\ (config.mode = "ExtractTickets" /\ calls # <<>>
        /\ calls[1].resp \in {"gh_error", "jq_error", "grep_error"}) =>
           (pc = "exit" /\ result = "Err")
    /\ (config.mode = "UpdateTickets" /\ calls # <<>>
        /\ ~calls[Len(calls)].resp.transport) =>
           (pc = "exit" /\ result = "Err")

\* C19 amended: in extract-tickets such a failure stops the stage: run
\* returns the error and no later line is read; in update-tickets a remote
\* call that did not get through fails the ticket only: the failure is
\* logged with the URL and the stage goes on, returning an error only for a
\* failure of its input.
C19_FatalInExtractOnly ==
    /\ (config.mode = "ExtractTickets" /\ calls # <<>>
        /\ calls[1].resp \in {"gh_error", "jq_error", "grep_error"}) =>
           /\ pc = "exit"
           /\ result = "Err"
           /\ error = calls[1].resp
           /\ Exited => exit_code = <<1>>
    /\ (config.mode = "UpdateTickets" /\ calls # <<>>
        /\ ~calls[Len(calls)].resp.transport) =>
           /\ cur.res = "Err"
           /\ pc \in {"lines", "open", "finish", "exit"}
           /\ result = "Err" => error \in OpenErrors \cup {"Failed to read"}
           /\ pc = "lines" =>
                 /\ result = "running"
                 /\ \E i \in 1..Len(log) :
                       log[i] = [msg |-> "Failed to update", about |-> CurUrl]

C19_Witness ==
    /\ config.mode = "ExtractTickets"
    /\ nLines = 2
    /\ out # <<>>
    /\ calls = <<[op |-> "pr", arg |-> <<"7">>, resp |-> "gh_error"]>>
    /\ result = "Err"
    /\ exit_code = <<1>>

\* C15: the process exits with code 0 when run returned Ok and with code 1
\* when it returned an error; update-tickets returns an error only for a
\* missing credential or an input failure, never for a ticket that failed;
\* an orchestrator whose stages did not all succeed exits with code 1.
C15_ExitCodeFollowsFatalErrors ==
    /\ Exited =>
          /\ pc = "exit"
          /\ result \in {"Ok", "Err"}
          /\ result = "Ok" => exit_code = <<0>>
          /\ result = "Err" => exit_code = <<1>>
    /\ (config.mode = "UpdateTickets" /\ exit_code = <<1>>) =>
          error \in OpenErrors \cup
                    {"LINEAR_API_KEY not provided", "LINEAR_ORG not provided",
                     "Failed to read"}
    /\ (config.mode = "UpdateTickets" /\ Exited /\ result = "Ok") =>
          exit_code = <<0>>
    /\ (config.mode = "Orchestrator" /\ Exited /\ AllWaited /\ ~AllSucceeded) =>
          exit_code = <<1>>

\* every ticket of the run failed and the process exited with code 0
C15_Witness ==
    /\ config.mode = "UpdateTickets"
    /\ nLines = 2
    /\ nErr = 2
    /\ out = <<>>
    /\ exit_code = <<0>>


\* the name of the stage each mode runs
StageOfMode ==
    [m \in {"ParseNotes", "ExtractTickets", "UpdateTickets", "Orchestrator"} |->
       CASE m = "ParseNotes" -> "parse-notes"
         [] m = "ExtractTickets" -> "extract-tickets"
         [] m = "UpdateTickets" -> "update-tickets"
         [] m = "Orchestrator" -> "orchestrator"]

\* C25: every fatal error that reaches the top level is printed on stderr
\* with a prefix that identifies the stage it comes from, and the process
\* exits with a non-zero code.
C25_FatalErrorNamesItsStage ==
    (pc = "exit" /\ result = "Err" /\ Exited) =>
        /\ exit_code # <<0>>
        /\ Len(log) >= 1
        /\ log[Len(log)].about = <<error>>
        /\ prefix_of(log[Len(log)], config.mode) = StageOfMode[config.mode]


(***************************************************************************)
(* The claims about the command line (checked under SpecArgs).             *)
(***************************************************************************)
\* the word at position i is the value of a --linear-org before it
RECURSIVE IsFlagValue(_)
IsFlagValue(i) ==
    /\ i > 1
    /\ argv[i - 1] = "--linear-org"
    /\ ~IsFlagValue(i - 1)
\* the positions after the mode where the command line names an input
\* source: a "-" or a file
SourceWords ==
    {i \in 2..Len(argv) : /\ ~IsFlagValue(i)
                           /\ argv[i] \in {"-", "a.txt", "parse-notes",
                                            "extract-tickets", "update-tickets"}}
StdinWords == {i \in SourceWords : argv[i] = "-"}
ReadsSources ==
    /\ Len(argv) >= 1
    /\ argv[1] \in {"extract-tickets", "update-tickets"}
Parsed == pc = "start"

\* C24: for extract-tickets and update-tickets every Config the argument
\* parsing produces has a source list that is not empty and holds Stdin at
\* most once: a second "-" is a configuration error, and without a file or
\* "-" on the command line the list is exactly <<Stdin>>.
C24_SourcesNonEmptyStdinOnce ==
    (ReadsSources /\ pc # "args") =>
        /\ Parsed =>
              /\ config.mode \in {"ExtractTickets", "UpdateTickets"}
              /\ config.input_sources # <<>>
              /\ Cardinality({i \in 1..Len(config.input_sources) :
                                config.input_sources[i].kind = "Stdin"}) <= 1
        /\ Cardinality(StdinWords) >= 2 =>
              /\ ~Parsed
              /\ result = "Err"
        /\ (Parsed /\ SourceWords = {}) =>
              config.input_sources = <<[kind |-> "Stdin", path |-> ""]>>

\* a file, then "-", then a second "-": refused
C24_Witness ==
    /\ argv = <<"update-tickets", "a.txt", "-", "-">>
    /\ result = "Err"
    /\ error = "stdin (-) cannot be specified more than once"
    /\ exit_code = <<1>>




(***************************************************************************)
(* The claims about the running pipeline (checked under SpecPipeline and   *)
(* SpecPipelineFair).                                                      *)
(***************************************************************************)
\* s is the start of t
IsPrefix(s, t) == Len(s) <= Len(t) /\ s = SubSeq(t, 1, Len(s))

\* the ids extract-tickets discovered, PR after PR, in discovery order
DiscoveredIds ==
    LET RECURSIVE flat(_)
        flat(i) == IF i > Len(hist.found) THEN <<>>
                   ELSE hist.found[i].ids \o flat(i + 1)
    IN  flat(1)

\* the PR numbers parse-notes found, match after match
DiscoveredPrs ==
    [i \in 1..Len(hist.got["parse-notes"]) |->
       NumberOfMatch(hist.got["parse-notes"][i])]

\* C21: a stage reading stdin has handled a line, output printed, before it
\* reads the next one, and does not wait for the end of its input: when
\* extract-tickets or update-tickets takes a line, everything the lines
\* before it gave rise to has been printed.
C21_LineHandledBeforeNextRead ==
    [][/\ hist'.got["extract-tickets"] # hist.got["extract-tickets"] =>
            /\ hist.sent["extract-tickets"] = FirstOccurrences(DiscoveredIds)
            /\ Len(hist'.got["extract-tickets"])
                  = Len(hist.got["extract-tickets"]) + 1
       /\ hist'.got["update-tickets"] # hist.got["update-tickets"] =>
            /\ hist.sent["update-tickets"] = hist.due
            /\ Len(hist'.got["update-tickets"])
                  = Len(hist.got["update-tickets"]) + 1]_vars

\* update-tickets has printed a URL while both stages before it still run
\* and have more to deliver
C21_Witness ==
    /\ Len(hist.sent["update-tickets"]) = 1
    /\ Alive("parse-notes")
    /\ Alive("extract-tickets")
    /\ proc["parse-notes"].pc = "write"
    /\ proc["extract-tickets"].pc = "write"

\* C22: with the three stages running over bounded pipes and every
\* collaborator call returning, the pipeline does not get stuck: every stage
\* that was spawned exits and the orchestrator returns Ok or Err and the
\* process exits, also when a stage exits before it has read all its input.
C22_PipelineTerminates ==
    <>(/\ Exited
       /\ pc = "exit"
       /\ result \in {"Ok", "Err"}
       /\ \A s \in Stages : children[s].state # "none" => proc[s].pc = "done")

\* extract-tickets failed on its first line while parse-notes had more to
\* print; parse-notes failed on the closed pipe, and the run has ended
C22_Witness ==
    /\ Len(hist.got["extract-tickets"]) = 1
    /\ proc["extract-tickets"].code = "failure"
    /\ Len(hist.got["parse-notes"]) >= 2
    /\ proc["parse-notes"].code = "failure"
    /\ proc["update-tickets"].code = "success"
    /\ Len(waits) = 3
    /\ result = "Err"
    /\ exit_code = <<1>>

\* the URL of each ticket id of the model
UrlOfTicket(line) ==
    CASE line = <<"A","B","C","-","1">> ->
           <<"https://linear.app/", "org-env", "/issue/", <<"A","B","C","-","1">> >>
      [] line = <<"X","Y","Z","-","2","2">> ->
           <<"https://linear.app/", "org-env", "/issue/", <<"X","Y","Z","-","2","2">> >>

\* s can be had from t by leaving elements out
RECURSIVE IsSubSeq(_, _)
IsSubSeq(s, t) ==
    IF s = <<>> THEN TRUE
    ELSE IF t = <<>> THEN FALSE
    ELSE IF Head(s) = Head(t) THEN IsSubSeq(Tail(s), Tail(t))
    ELSE IsSubSeq(s, Tail(t))

C33_FailureReportedAfterFullDrain ==
    /\ error = "Pipeline failed" =>
          /\ \A s \in Stages : proc[s].pc = "done"
          /\ Len(waits) = 3
          /\ \E s \in Stages : proc[s].code = "failure"
    /\ (proc["update-tickets"].pc = "done"
        /\ proc["update-tickets"].code = "success") =>
          /\ pipe[2] = <<>>
          /\ hist.got["update-tickets"] = hist.sent["extract-tickets"]
          /\ hist.sent["update-tickets"] = hist.due

\* extract-tickets failed on its second PR after printing a ticket id;
\* update-tickets printed the URL of that ticket; the run failed
C33_Witness ==
    /\ error = "Pipeline failed"
    /\ exit_code = <<1>>
    /\ proc["extract-tickets"].code = "failure"
    /\ Len(hist.got["extract-tickets"]) = 2
    /\ Len(hist.sent["extract-tickets"]) = 1
    /\ proc["update-tickets"].code = "success"
    /\ Len(hist.sent["update-tickets"]) = 1

\* the command line stage s was spawned with holds the word w
PassedTo(s, w) == \E i \in 1..Len(children[s].args) : children[s].args[i] = w

\* C34: "--dry-run" and "--update-all-statuses" are on the command line of
\* update-tickets exactly when the flag is set in the orchestrator's Config,
\* and on the command line of no other stage; update-tickets reads the word
\* "--dry-run" as its dry_run setting.
C34_FlagsReachUpdateTicketsOnly ==
    /\ \A s \in Stages \ {"update-tickets"} :
          ~PassedTo(s, "--dry-run") /\ ~PassedTo(s, "--update-all-statuses")
    /\ children["update-tickets"].state # "none" =>
          /\ PassedTo("update-tickets", "--dry-run") <=> config.dry_run
          /\ PassedTo("update-tickets", "--update-all-statuses")
                <=> config.update_all_statuses
          /\ children["update-tickets"].args[1] = "update-tickets"
          /\ \A i \in 1..Len(children["update-tickets"].args) :
                children["update-tickets"].args[i] = "--dry-run" =>
                  parse_common_flags(children["update-tickets"].args, i,
                                     NoParsedArgs).parsed.dry_run

\* a dry run without --update-all-statuses: the three stages are spawned,
\* update-tickets with --dry-run as its only flag after the credentials
C34_Witness ==
    /\ config.dry_run /\ ~config.update_all_statuses
    /\ \A s \in Stages : children[s].state # "none"
    /\ children["update-tickets"].args[6] = "--dry-run"
    /\ Len(children["update-tickets"].args) = 6
    /\ Len(children["parse-notes"].args) = 3

\* C35: the sources are taken in list order and a file is opened when its
\* turn comes: a file that cannot be opened fails the stage with the error
\* naming its path, with nothing printed and no line handled by that step; a
\* line is handled only from the source that is open, and after the failure
\* no line is handled and nothing more is printed.
C35_SourcesInOrderOpenedInTurn ==
    [][config.mode \in {"ExtractTickets", "UpdateTickets"} =>
       /\ (pc = "open" /\ result' = "Err") =>
            /\ config.input_sources[srcIdx].kind = "File"
            /\ config.input_sources[srcIdx].path = "a.txt" =>
                   error' = "Failed to open file a.txt"
            /\ config.input_sources[srcIdx].path = "b.txt" =>
                   error' = "Failed to open file b.txt"
            /\ out' = out /\ nLines' = nLines /\ srcIdx' = srcIdx
       /\ nLines' # nLines =>
            /\ pc = "lines" /\ srcIdx' = srcIdx
            /\ result = "running"
       /\ srcIdx' # srcIdx =>
            /\ srcIdx' = srcIdx + 1
            /\ pc = "lines" /\ pc' = "open"
       /\ error \in OpenErrors =>
            /\ nLines' = nLines /\ out' = out /\ srcIdx' = srcIdx]_vars

\* the second file cannot be opened after a line of the first one was
\* handled and its ticket printed
C35_Witness ==
    /\ config.input_sources = <<File("a.txt"), File("b.txt")>>
    /\ srcIdx = 2
    /\ result = "Err"
    /\ error = "Failed to open file b.txt"
    /\ nLines = 1
    /\ out # <<>>

\* the input lines that are empty or made of white space only
BlankLines == { <<>>, <<" ">>, <<" ", "\t">> }

\* C36: in extract-tickets and update-tickets a blank or whitespace-only
\* line is skipped silently: handling it makes no call, logs nothing, prints
\* nothing, fails nothing, and leaves the stage ready for the next line.
C36_BlankLineSkippedSilently ==
    [][(/\ config.mode \in {"ExtractTickets", "UpdateTickets"}
        /\ nLines' = nLines + 1
        /\ cur'.line \in BlankLines) =>
          /\ calls' = <<>>
          /\ out' = out
          /\ config.mode = "UpdateTickets" => log' = <<>> /\ cur'.res = "Blank"
          /\ config.mode = "ExtractTickets" => log' = log
          /\ seen' = seen /\ any_output' = any_output /\ nErr' = nErr
          /\ result' = result /\ error' = error
          /\ pc' = "lines"]_vars

\* a whitespace-only line was read by update-tickets after a ticket whose
\* URL was printed; the stage is reading on
C36_Witness ==
    /\ config.mode = "UpdateTickets"
    /\ cur.line = <<" ", "\t">>
    /\ cur.res = "Blank"
    /\ nLines = 2
    /\ Len(out) = 1
    /\ calls = <<>> /\ log = <<>>
    /\ pc = "lines" /\ result = "running"

\* the pattern ^[A-Z]{3}-[0-9]+$ read character by character: three upper
\* case letters, a hyphen, then digits only and at least one
UpperLetters ==
    {"A","B","C","D","E","F","G","H","I","J","K","L","M",
     "N","O","P","Q","R","S","T","U","V","W","X","Y","Z"}
MatchesTicketPattern(s) ==
    /\ Len(s) >= 5
    /\ \A i \in 1..3 : s[i] \in UpperLetters
    /\ s[4] = "-"
    /\ \A i \in 5..Len(s) : s[i] \in {"0","1","2","3","4","5","6","7","8","9"}

\* C37: is_valid_ticket_id accepts a text exactly when the whole text
\* matches ^[A-Z]{3}-[0-9]+$.
C37_ValidIffPatternMatches ==
    pc = "parsed" =>
       /\ cur.res \in {"valid", "invalid"}
       /\ cur.res = "valid" <=> MatchesTicketPattern(cur.line)

\* a ticket id of two digits was accepted
C37_Witness ==
    /\ pc = "parsed"
    /\ cur.line = <<"A", "Z", "A", "-", "7", "7">>
    /\ cur.res = "valid"

\* the PR numbers the release notes of the model refer to in both forms
TwoFormNumbers == { <<"5">>, <<"1","2">> }

\* the lines of parse-notes' output that refer to PR n in any form
LinesAbout(n) ==
    {k \in 1..Len(out) : out[k] \in {n, <<"#">> \o n, PullUrl \o n}}

\* C38: parse-notes reduces "#N" and a pull-request URL ending "/pull/N" to
\* the same key N before it looks the key up: once both forms of a PR were
\* matched, in either order, its output holds N on one line and no other
\* line about that PR.
C38_BothFormsOneNumber ==
    config.mode = "ParseNotes" =>
      \A n \in TwoFormNumbers :
         /\ cur.line \in {<<"#">> \o n, PullUrl \o n} => cur.id = n
         /\ (/\ \E i \in 1..Len(found) : found[i] = <<"#">> \o n
             /\ \E j \in 1..Len(found) : found[j] = PullUrl \o n) =>
               /\ Cardinality(LinesAbout(n)) = 1
               /\ \A k \in LinesAbout(n) : out[k] = n

\* the URL of PR 12 was matched first, "#12" second, "#12" again third: 12
\* was printed once
C38_Witness ==
    /\ config.mode = "ParseNotes"
    /\ found = << PullUrl \o <<"1","2">>, <<"#","1","2">>, <<"#","1","2">> >>
    /\ out = << <<"1","2">> >>

====
